---------------------------- MODULE Spec2Model ----------------------------
(***************************************************************************)
(* Model of the mind-map layout and merge engine of mindmap_viz.           *)
(*                                                                         *)
(*   src/unnamed/part_002   mindMapTransform.ts (merge, child map,         *)
(*                          descendants, preserveExistingPositions)        *)
(*   src/unnamed/part_003   mergeNodesEdges (append-new-only merge)        *)
(*   src/unnamed/part_009   MindMap.tsx with the inline id-filter merge    *)
(*   src/src/components/MindMap.tsx   the component: layout, overlap       *)
(*                          resolver, drag handler, expand handler         *)
(*                                                                         *)
(* A node is a record [id, len, pos, gen, hidden, isExpanded, obj, pobj]:  *)
(* len is the length of its label (the only thing the footprint depends    *)
(* on), gen stands for every other attribute of the object (it names the   *)
(* generator response that produced the object).  obj names the JavaScript *)
(* object and pobj its position object: the layout assigns and mutates     *)
(* both in place, so two lists that hold the same object see each other's  *)
(* changes.  An edge is [id, source, target].  Lists are sequences, in the *)
(* order of the JavaScript arrays.                                         *)
(*                                                                         *)
(* Coordinates are JavaScript doubles in the source.  Here they are        *)
(* integers counting 1/Px of a pixel; a quotient is rounded toward zero on *)
(* that grid, a square root is rounded down.                               *)
(***************************************************************************)
EXTENDS Integers, Sequences, FiniteSets, TLC

\* Units per pixel of the fixed-point coordinates.
Px == 10 * 10

(***************************************************************************)
(* Bounds of the model.                                                    *)
(***************************************************************************)
\* Merges applied in one run of the merge specification.
MaxMerges == 2
\* Nodes in one generated subgraph of the merge specification.
MaxGen == 2
\* Characters in a generated label.
LabelLen == 4
\* Queries submitted, expand buttons clicked and drags made in one run of the
\* component.
MaxQueries == 1
MaxClicks == 3
MaxDrags == 2
\* Clicks and drags together in one run of the component.
MaxGestures == 4
\* Children of the root in a new map, and new children in the response to
\* an expansion request.
RootChildren == 2
MaxChildren == 1

\* Node ids the generator may use.
Ids == {"r", "a", "b", "c"}

\* Sequences over S of length 1..n.
RECURSIVE SeqsUpTo(_, _)
SeqsUpTo(S, n) ==
  IF n = 0 THEN {}
  ELSE LET shorter == SeqsUpTo(S, n - 1)
       IN  {<<x>> : x \in S} \cup shorter
             \cup {Append(s, x) : s \in {t \in shorter : Len(t) = n - 1}, x \in S}

Range(s) == {s[i] : i \in DOMAIN s}
NodeIds(ns) == {ns[i].id : i \in DOMAIN ns}
EdgeIds(es) == {es[i].id : i \in DOMAIN es}
Pos(x, y) == [x |-> x, y |-> y]

\* A node object as transformGPTToFlow builds it: data has no isExpanded
\* ("undefined"; the toggle sets it to "true" or "false").
MkNode(id, len, pos, gen) ==
  [id |-> id, len |-> len, pos |-> pos, gen |-> gen,
   hidden |-> FALSE, isExpanded |-> "undefined", obj |-> 0, pobj |-> 0]
\* The truth value JavaScript gives data.isExpanded.
Truthy(isExpanded) == isExpanded = "true"
\* An edge object; the generator names an edge after its end points.
MkEdge(s, t) == [id |-> <<s, t>>, source |-> s, target |-> t]

(***************************************************************************)
(* mindMapTransform: merges and graph index.                               *)
(***************************************************************************)
\* Replace-children merge.
mergeExpandedNodesAndEdges(prevNodes, prevEdges, newNodes, newEdges, expandedNodeId) ==
  LET oldChildrenIds ==
        {prevEdges[i].target : i \in {j \in DOMAIN prevEdges :
                                         prevEdges[j].source = expandedNodeId}}
      filteredNodes == SelectSeq(prevNodes, LAMBDA n : n.id \notin oldChildrenIds)
      filteredEdges ==
        SelectSeq(prevEdges,
                  LAMBDA e : ~(e.source = expandedNodeId /\ e.target \in oldChildrenIds))
  IN  [nodes |-> filteredNodes \o newNodes, edges |-> filteredEdges \o newEdges]

\* Index of the element of s whose id is id (0 when there is none).
IndexOfId(s, id) ==
  IF \E i \in DOMAIN s : s[i].id = id
  THEN CHOOSE i \in DOMAIN s : s[i].id = id /\ \A j \in 1..(i - 1) : s[j].id # id
  ELSE 0

\* Object.values(Object.fromEntries(s.map(e => [e.id, e]))): one element per
\* id, in the order the ids first occur, the last element of an id winning.
RECURSIVE ObjectValuesById(_)
ObjectValuesById(s) ==
  IF s = <<>> THEN <<>>
  ELSE LET front == ObjectValuesById(SubSeq(s, 1, Len(s) - 1))
           last  == s[Len(s)]
           k     == IndexOfId(front, last.id)
       IN  IF k = 0 THEN Append(front, last) ELSE [front EXCEPT ![k] = last]

\* for (const n of news) if (!map[n.id]) map[n.id] = n, on a map kept as a list.
RECURSIVE AddIfAbsent(_, _)
AddIfAbsent(map, news) ==
  IF news = <<>> THEN map
  ELSE AddIfAbsent(IF Head(news).id \in {map[i].id : i \in DOMAIN map}
                   THEN map ELSE Append(map, Head(news)),
                   Tail(news))

\* Append-new-only merge.
mergeNodesEdges(prevNodes, prevEdges, newNodes, newEdges) ==
  [nodes |-> AddIfAbsent(ObjectValuesById(prevNodes), newNodes),
   edges |-> AddIfAbsent(ObjectValuesById(prevEdges), newEdges)]

\* The inline merge of onNodeClick: filter the generated elements against the
\* ids already there, then append.
inlineMerge(nodes, edges, gptNodes, gptEdges) ==
  [nodes |-> nodes \o SelectSeq(gptNodes, LAMBDA n : n.id \notin NodeIds(nodes)),
   edges |-> edges \o SelectSeq(gptEdges, LAMBDA e : e.id \notin EdgeIds(edges))]

\* A child map that lists the newest child of a source first.
getChildMapNewestFirst(edges) ==
  [s \in {edges[i].source : i \in DOMAIN edges} |->
     LET out == SelectSeq(edges, LAMBDA e : e.source = s)
     IN  [i \in DOMAIN out |-> out[Len(out) + 1 - i].target]]

\* childMap[s]: the targets of the edges leaving s, in edge order.
getChildMap(edges) ==
  [s \in {edges[i].source : i \in DOMAIN edges} |->
     LET out == SelectSeq(edges, LAMBDA e : e.source = s)
     IN  [i \in DOMAIN out |-> out[i].target]]

ChildrenOf(childMap, id) == IF id \in DOMAIN childMap THEN childMap[id] ELSE <<>>

\* getDescendantIds: pre-order list of the descendants; an id reached along
\* several paths is listed once per path.  The recursion has no visited set.
RECURSIVE getDescendantIds(_, _)
RECURSIVE DescendantsOfAll(_, _)
DescendantsOfAll(children, childMap) ==
  IF children = <<>> THEN <<>>
  ELSE <<Head(children)>> \o getDescendantIds(Head(children), childMap)
         \o DescendantsOfAll(Tail(children), childMap)
getDescendantIds(nodeId, childMap) ==
  DescendantsOfAll(ChildrenOf(childMap, nodeId), childMap)

\* getDescendantIds with its call stack: the for loop of one call over the
\* children that are left, acc being [ids, thrown].  path holds the ids of the
\* calls on the stack; a call on an id of its own stack repeats itself until
\* the stack overflows (RangeError).
RECURSIVE DescendantCalls(_, _, _, _)
DescendantCalls(acc, children, childMap, path) ==
  IF children = <<>> \/ acc.thrown # "none" THEN acc
  ELSE IF Head(children) \in path THEN [acc EXCEPT !.thrown = "RangeError"]
  ELSE DescendantCalls(
         DescendantCalls([acc EXCEPT !.ids = Append(@, Head(children))],
                         ChildrenOf(childMap, Head(children)), childMap,
                         path \cup {Head(children)}),
         Tail(children), childMap, path)
\* The outcome of getDescendantIds(nodeId, childMap): the list it returns or
\* the exception it ends with.
getDescendantIdsOutcome(nodeId, childMap) ==
  DescendantCalls([ids |-> <<>>, thrown |-> "none"], ChildrenOf(childMap, nodeId),
                  childMap, {nodeId})

\* calculateNodeLevels: children.forEach of one dequeued node, run being
\* [levels, queue].
RECURSIVE LevelChildren(_, _, _)
LevelChildren(run, children, level) ==
  IF children = <<>> THEN run
  ELSE LevelChildren(
         IF Head(children) \in DOMAIN run.levels THEN run
         ELSE [levels |-> [k \in DOMAIN run.levels \cup {Head(children)} |->
                             IF k = Head(children) THEN level ELSE run.levels[k]],
               queue |-> Append(run.queue, Head(children))],
         Tail(children), level)
\* while (queue.length > 0): queue.shift(), then its children.
RECURSIVE LevelLoop(_, _)
LevelLoop(run, adjacencyList) ==
  IF run.queue = <<>> THEN run.levels
  ELSE LevelLoop(LevelChildren([run EXCEPT !.queue = Tail(@)],
                               ChildrenOf(adjacencyList, Head(run.queue)),
                               run.levels[Head(run.queue)] + 1),
                 adjacencyList)
\* A level map that gives level 0 to the nodes the traversal has not reached.
calculateNodeLevelsOrZero(nodes, edges) ==
  LET reached == IF "r" \notin NodeIds(nodes) THEN <<>>
                 ELSE LevelLoop([levels |-> [k \in {"r"} |-> 0], queue |-> <<"r">>],
                                getChildMap(edges))
  IN  [id \in NodeIds(nodes) \cup DOMAIN reached |->
         IF id \in DOMAIN reached THEN reached[id] ELSE 0]

\* calculateNodeLevels(nodes, edges): the level map, a function on the ids it
\* holds.  The root is the node whose id is "root", written "r" in the model.
calculateNodeLevels(nodes, edges) ==
  IF "r" \notin NodeIds(nodes) THEN <<>>
  ELSE LevelLoop([levels |-> [k \in {"r"} |-> 0], queue |-> <<"r">>], getChildMap(edges))


\* The ids reachable from id along the edges (id itself included).
RECURSIVE ReachFrom(_, _)
ReachFrom(seen, edges) ==
  LET next == seen \cup {edges[i].target : i \in {j \in DOMAIN edges :
                                                   edges[j].source \in seen}}
  IN  IF next = seen THEN seen ELSE ReachFrom(next, edges)
Descendants(id, edges) ==
  ReachFrom({edges[i].target : i \in {j \in DOMAIN edges : edges[j].source = id}},
            edges)

(***************************************************************************)
(* Fixed-point arithmetic.                                                 *)
(***************************************************************************)
Max(a, b) == IF a >= b THEN a ELSE b
Min(a, b) == IF a <= b THEN a ELSE b
Abs(a) == IF a >= 0 THEN a ELSE -a
\* a / b rounded toward zero.
Quot(a, b) == IF a >= 0 THEN a \div b ELSE -((-a) \div b)
\* Math.ceil(a / b) for a >= 0, b > 0.
CeilDiv(a, b) == (a + b - 1) \div b
\* Math.sqrt, rounded down.
RECURSIVE SqrtIter(_, _)
SqrtIter(n, r) ==
  LET next == (r + n \div r) \div 2
  IN  IF next >= r THEN r ELSE SqrtIter(n, next)
Isqrt(n) == IF n <= 0 THEN 0 ELSE SqrtIter(n, n)
\* Sum of f over the elements of a sequence.
RECURSIVE SumSeq(_)
SumSeq(s) == IF s = <<>> THEN 0 ELSE Head(s) + SumSeq(Tail(s))

(***************************************************************************)
(* MindMap.tsx: layout parameters and footprints.                          *)
(***************************************************************************)
startX == 400 * Px
startY == 40 * Px
xGap == 40 * Px
yGap == 110 * Px
staggerY == 32 * Px
minNodePadding == 20 * Px
minNodeHeight == 26 * Px

\* estimateNodeWidth(label), for a label of len characters.
estimateNodeWidth(len) ==
  Max(80 * Px, (len * 85 * Px) \div 10 + minNodePadding * 2 + 40 * Px)
estimateNodeHeight == Max(minNodeHeight, 30 * Px)

\* The footprint of a node: the box centred on its position.
BoundsOf(n) ==
  [x |-> n.pos.x - estimateNodeWidth(n.len) \div 2,
   y |-> n.pos.y - estimateNodeHeight \div 2,
   width |-> estimateNodeWidth(n.len),
   height |-> estimateNodeHeight]

checkCollisionWithSpacing(a, b, spacing) ==
  ~( \/ a.x + a.width + spacing < b.x
     \/ b.x + b.width + spacing < a.x
     \/ a.y + a.height + spacing < b.y
     \/ b.y + b.height + spacing < a.y )

\* The grid cells a box is registered in or looked up in.
GridCells(box, cellSize) ==
  ((box.x \div cellSize) .. ((box.x + box.width) \div cellSize))
    \X ((box.y \div cellSize) .. ((box.y + box.height) \div cellSize))

\* createSpatialGrid: the bounds of every node (the last node of an id wins)
\* and, per node, the cells it is registered in.
createSpatialGrid(nodes, cellSize) ==
  [cellSize |-> cellSize,
   nodeBounds |-> [id \in NodeIds(nodes) |->
                     BoundsOf(nodes[CHOOSE i \in DOMAIN nodes :
                                      /\ nodes[i].id = id
                                      /\ \A j \in (i + 1)..Len(nodes) : nodes[j].id # id])],
   cells |-> [id \in NodeIds(nodes) |->
                UNION {GridCells(BoundsOf(nodes[i]), cellSize) :
                         i \in {j \in DOMAIN nodes : nodes[j].id = id}}]]

\* getGridCandidates: the ids registered in a cell the area overlaps.
getGridCandidates(spatialGrid, area) ==
  {id \in DOMAIN spatialGrid.cells :
     spatialGrid.cells[id] \cap GridCells(area, spatialGrid.cellSize) # {}}

checkAreaCollision(spatialGrid, area, minGap) ==
  \E id \in getGridCandidates(spatialGrid, area) :
    checkCollisionWithSpacing(area, spatialGrid.nodeBounds[id], minGap)

\* validateNodePositions: the pairs (as index pairs i < j of the list, and as
\* id pairs) whose footprints collide within minGap.
validateNodePositions(nodes, minGap) ==
  LET pairs == {p \in (DOMAIN nodes) \X (DOMAIN nodes) :
                  /\ p[1] < p[2]
                  /\ checkCollisionWithSpacing(BoundsOf(nodes[p[1]]),
                                               BoundsOf(nodes[p[2]]), minGap)}
  IN  [hasOverlaps |-> pairs # {},
       overlapCount |-> Cardinality(pairs),
       overlappingPairs |-> {{nodes[p[1]].id, nodes[p[2]].id} : p \in pairs}]

(***************************************************************************)
(* MindMap.tsx: the space-finding search.                                  *)
(***************************************************************************)
\* 10000 * cos(k * PI / 8), k = 0..15, and 10000 * cos(k * PI / 12), k = 0..23.
Cos8 == <<10000, 9239, 7071, 3827, 0, -3827, -7071, -9239,
          -10000, -9239, -7071, -3827, 0, 3827, 7071, 9239>>
Cos12 == <<10000, 9659, 8660, 7071, 5000, 2588, 0, -2588, -5000, -7071, -8660, -9659,
           -10000, -9659, -8660, -7071, -5000, -2588, 0, 2588, 5000, 7071, 8660, 9659>>
\* radius * cos(angle) and radius * sin(angle) for the k-th angle of a table
\* (sin x = cos(x - PI/2): a quarter of the table back).
CosTimes(table, k, radius) == Quot(table[k + 1] * (radius \div Px), 10000 \div Px)
SinTimes(table, k, radius) ==
  CosTimes(table, (k + Len(table) - Len(table) \div 4) % Len(table), radius)

\* The first of the candidates that pass a strategy's test, as a one-element
\* sequence (empty when none passes): a strategy's "return area" / "return null".
FirstOf(passing) == IF passing = <<>> THEN <<>> ELSE <<Head(passing)>>

\* positions.reduce((a, b) => a.score < b.score ? a : b): the last of the
\* elements of least score.
BestByScore(s) ==
  s[CHOOSE i \in DOMAIN s :
      /\ \A j \in DOMAIN s : s[i].score <= s[j].score
      /\ \A j \in DOMAIN s : j > i => s[i].score < s[j].score]

\* The square of a distance, for comparing distances; the differences are
\* multiples of a quarter pixel.
Dist2(dx, dy) ==
  LET q == Px \div 4 IN Quot(dx, q) * Quot(dx, q) + Quot(dy, q) * Quot(dy, q)
\* Math.sqrt(dx * dx + dy * dy).
Dist(dx, dy) == Isqrt(Dist2(dx, dy)) * (Px \div 4)

\* Concatenation of a sequence of sequences.
RECURSIVE Flatten(_)
Flatten(ss) == IF ss = <<>> THEN <<>> ELSE Head(ss) \o Flatten(Tail(ss))

\* The fallback of findBulkSpace: the furthest right edge among the existing
\* nodes near the fallback row, folded over the nodes in order.
RECURSIVE BulkMaxRight(_, _, _, _)
BulkMaxRight(existingNodes, maxRight, fallbackY, reach) ==
  IF existingNodes = <<>> THEN maxRight
  ELSE LET node == Head(existingNodes)
           nodeRight == node.pos.x + estimateNodeWidth(node.len) \div 2
       IN  BulkMaxRight(Tail(existingNodes),
                        IF nodeRight > maxRight /\ Abs(node.pos.y - fallbackY) < reach
                        THEN nodeRight + minNodePadding * 2 ELSE maxRight,
                        fallbackY, reach)

\* findBulkSpace(existingNodes, parentNode, childrenData): a block for all the
\* children side by side; childrenData is the sequence of their widths.
findBulkSpace(existingNodes, parentNode, childrenData) ==
  LET minGap == minNodePadding
      totalWidth == SumSeq(childrenData) + xGap * Max(0, Len(childrenData) - 1)
      maxHeight == estimateNodeHeight
      spatialGrid == createSpatialGrid(existingNodes, 100 * Px)
      baseX == parentNode.pos.x
      dynamicYGap == Max(yGap, (maxHeight * 3) \div 2)
      baseY == parentNode.pos.y + dynamicYGap
      Area(x, y) == [x |-> x, y |-> y, width |-> totalWidth, height |-> maxHeight]
      Free(area) == ~checkAreaCollision(spatialGrid, area, minGap)
      \* preferred positions, by priority
      preferred ==
        FirstOf(SelectSeq(
                  <<Area(baseX - totalWidth \div 2, baseY),
                    Area(baseX - totalWidth - minGap * 3, baseY),
                    Area(baseX + minGap * 3, baseY),
                    Area(baseX - totalWidth \div 2, baseY + maxHeight + minGap * 3)>>,
                  Free))
      \* spiral: radius 30, 60, .. 500, sixteen angles each
      stepSize == 30 * Px
      SpiralArea(n) ==
        LET radius == stepSize * (1 + n \div Len(Cos8))
            k == n % Len(Cos8)
        IN  Area(baseX + CosTimes(Cos8, k, radius) - totalWidth \div 2,
                 Max(baseY, baseY + SinTimes(Cos8, k, radius)))
      spiral ==
        FirstOf(SelectSeq([ix \in 1..(((500 * Px) \div stepSize) * Len(Cos8)) |->
                             SpiralArea(ix - 1)], Free))
      \* grid scan around the ideal position, the nearest free position wins
      gridStep == 40 * Px
      gridCols == CeilDiv(800 * Px, gridStep)
      gridRows == CeilDiv(600 * Px, gridStep)
      GridPos(n) ==
        LET x == baseX - (800 * Px) \div 2 + gridStep * (n \div gridRows)
            y == baseY + gridStep * (n % gridRows)
        IN  [x |-> x, y |-> y,
             score |-> Dist2(x - (baseX - totalWidth \div 2), y - baseY)]
      gridFree ==
        SelectSeq([ix \in 1..(gridCols * gridRows) |-> GridPos(ix - 1)],
                  LAMBDA q : Free(Area(q.x, q.y)))
      \* fallback
      fallbackY == baseY + maxHeight * 3 + minGap * 5
      maxRight == BulkMaxRight(existingNodes, baseX + totalWidth \div 2,
                               fallbackY, maxHeight + minGap)
  IN  IF preferred # <<>> THEN preferred[1]
      ELSE IF spiral # <<>> THEN spiral[1]
      ELSE IF gridFree # <<>>
           THEN Area(BestByScore(gridFree).x, BestByScore(gridFree).y)
      ELSE Area(Max(baseX - totalWidth \div 2, maxRight - totalWidth), fallbackY)

\* Math.min(...) and Math.max(...) over a set of numbers; of no number they
\* are +Infinity and -Infinity, which the callers below resolve.
MinOf(S) == CHOOSE m \in S : \A k \in S : m <= k
MaxOf(S) == CHOOSE m \in S : \A k \in S : m >= k

\* The density map of findOpenSpace: how many existing nodes lie in the 3 x 3
\* block of 50-pixel cells around the cell <<cx, cy>>.
Density(existingNodes, cx, cy) ==
  Cardinality({i \in DOMAIN existingNodes :
                 /\ Abs(existingNodes[i].pos.x \div (50 * Px) - cx) <= 1
                 /\ Abs(existingNodes[i].pos.y \div (50 * Px) - cy) <= 1})

\* findOpenSpace(existingNodes, parentNode, nodeWidth, nodeHeight,
\* staggerOffset, childIndex, siblingCount): a centre for one child.  Scores
\* are compared as the source compares them, on the rounded distances.
\* A search that skips no position for being too close to the parent.
NeverTooClose(y, parentBottom, nodeHeight) == FALSE
\* if (pos.y <= parentBottom + nodeHeight/2) continue, of strategies 1 to 3.
TooCloseToParent(y, parentBottom, nodeHeight) == y <= parentBottom + nodeHeight \div 2

findOpenSpace(existingNodes, parentNode, nodeWidth, nodeHeight, staggerOffset, childIndex, siblingCount) ==
  LET spatialGrid == createSpatialGrid(existingNodes, 100 * Px)
      sign == IF childIndex % 2 = 0 THEN 1 ELSE -1
      offsetIdx == (childIndex + 1) \div 2
      baseStaggerY == sign * offsetIdx * ((staggerY * 8) \div 10)
      baseX == parentNode.pos.x
      dynamicYGap == Max(yGap, (nodeHeight * 3) \div 2)
      baseY == parentNode.pos.y + dynamicYGap
      parentBottom == parentNode.pos.y + nodeHeight
      initialSpread == Quot((2 * childIndex - (siblingCount - 1)) * (nodeWidth + xGap), 2)
      proposedX == baseX + initialSpread
      idealY == baseY + baseStaggerY
      TooClose(q) == TooCloseToParent(q.y, parentBottom, nodeHeight)
      Free(q) == ~checkAreaCollision(spatialGrid,
                    [x |-> q.x - nodeWidth \div 2, y |-> q.y - nodeHeight \div 2,
                     width |-> nodeWidth, height |-> nodeHeight],
                    minNodePadding)
      Usable(q) == ~TooClose(q) /\ Free(q)
      \* strategy 1
      preferred ==
        FirstOf(SelectSeq(
                  <<Pos(proposedX, idealY),
                    Pos(proposedX - nodeWidth, idealY),
                    Pos(proposedX + nodeWidth, idealY),
                    Pos(proposedX, idealY + nodeHeight),
                    Pos(proposedX, idealY - nodeHeight)>>,
                  Usable))
      \* strategy 2: per radius, the free position nearest to the ideal one
      stepSize == 25 * Px
      Ring(ri) ==
        LET radius == stepSize * ri
            At(k) ==
              LET x == proposedX + CosTimes(Cos12, k, radius)
                  y == Max(idealY, baseY + Abs(SinTimes(Cos12, k, radius)))
              IN  [x |-> x, y |-> y, score |-> Dist(x - proposedX, y - idealY)]
        IN  SelectSeq([ix \in 1..Len(Cos12) |-> At(ix - 1)], Usable)
      rings == {ri \in 1..((300 * Px) \div stepSize) : Ring(ri) # <<>>}
      \* strategy 3
      gridStep == 20 * Px
      gridCols == CeilDiv(600 * Px, gridStep)
      gridRows == CeilDiv(400 * Px, gridStep)
      siblingDistance(x, y) ==
        MinOf({Dist(x - existingNodes[i].pos.x, y - existingNodes[i].pos.y) :
                 i \in DOMAIN existingNodes})
      spacingBonus(x, y) ==
        IF existingNodes = <<>> THEN 50 * Px
        ELSE Min(50 * Px, Max(0, siblingDistance(x, y) - 100 * Px))
      GridPos(n) ==
        LET x == proposedX - (600 * Px) \div 2 + gridStep * (n \div gridRows)
            y == idealY + gridStep * (n % gridRows)
        IN  [x |-> x, y |-> y,
             score |-> Dist(x - proposedX, y - idealY)
                        + Density(existingNodes, x \div (50 * Px), y \div (50 * Px)) * 20 * Px
                        - spacingBonus(x, y)]
      gridFree == SelectSeq([ix \in 1..(gridCols * gridRows) |-> GridPos(ix - 1)], Usable)
      \* fallback
      fallbackY ==
        IF existingNodes = <<>> THEN idealY + nodeHeight * 3
        ELSE Max(idealY + nodeHeight * 3,
                 MaxOf({existingNodes[i].pos.y : i \in DOMAIN existingNodes})
                   + nodeHeight * 2)
  IN  IF preferred # <<>> THEN preferred[1]
      ELSE IF rings # {}
           THEN Pos(BestByScore(Ring(MinOf(rings))).x, BestByScore(Ring(MinOf(rings))).y)
      ELSE IF gridFree # <<>>
           THEN Pos(BestByScore(gridFree).x, BestByScore(gridFree).y)
      ELSE Pos(proposedX, fallbackY)

(***************************************************************************)
(* MindMap.tsx: assignStaggeredTreePositions.                              *)
(*                                                                         *)
(* The layout works on idToNode, kept here as the list of its values, and  *)
(* assigns the position of the node objects in place.  A layout state is   *)
(* [nodes, placed, thrown]: the values of idToNode, the ids placeSubtree   *)
(* has assigned a fresh position object, and the exception that ended the  *)
(* layout ("none" while it runs).                                          *)
(***************************************************************************)
NodeOf(nodes, id) == nodes[IndexOfId(nodes, id)]
\* nodeWidth(id): estimateNodeWidth(idToNode[id]?.data?.label || "").
nodeWidth(nodes, id) ==
  IF id \in NodeIds(nodes) THEN estimateNodeWidth(NodeOf(nodes, id).len)
  ELSE estimateNodeWidth(0)
SetPos(nodes, id, pos) == [nodes EXCEPT ![IndexOfId(nodes, id)].pos = pos]
\* children.includes(x)
Includes(children, x) == \E i \in DOMAIN children : children[i] = x

\* placeSubtree(id, depth, x, y).  path holds the ids of the calls on the
\* stack: the source has no such guard, and a call on an id of its own stack
\* recurses until the stack overflows (RangeError).  An id that is not in
\* idToNode makes the assignment of its position a TypeError.
RECURSIVE placeSubtree(_, _, _, _, _, _, _)
RECURSIVE PlaceChildrenManual(_, _, _, _, _, _, _)
RECURSIVE PlaceChildrenBulk(_, _, _, _, _, _, _, _)
placeSubtree(st, childMap, userPositions, id, x, y, path) ==
  IF st.thrown # "none" THEN st
  ELSE IF id \notin NodeIds(st.nodes) THEN [st EXCEPT !.thrown = "TypeError"]
  ELSE IF id \in path THEN [st EXCEPT !.thrown = "RangeError"]
  ELSE
    LET children == ChildrenOf(childMap, id)
        manual == id \in DOMAIN userPositions
        placedSt == [st EXCEPT !.nodes = SetPos(st.nodes, id,
                                           IF manual THEN userPositions[id] ELSE Pos(x, y)),
                               !.placed = @ \cup {id}]
        parentPos == NodeOf(placedSt.nodes, id).pos
        parentBottom == parentPos.y + minNodeHeight \div 2
        childrenData == [i \in DOMAIN children |-> nodeWidth(placedSt.nodes, children[i])]
        hasManualPositions == \E i \in DOMAIN children : children[i] \in DOMAIN userPositions
        bulkExisting ==
          SelectSeq(placedSt.nodes, LAMBDA n : ~Includes(children, n.id) /\ n.id # id)
        bulkArea == findBulkSpace(bulkExisting, NodeOf(placedSt.nodes, id), childrenData)
    IN  IF children = <<>> THEN placedSt
        ELSE IF hasManualPositions
             THEN PlaceChildrenManual(placedSt, childMap, userPositions, id, 1,
                                      parentBottom, path \cup {id})
        ELSE PlaceChildrenBulk(placedSt, childMap, userPositions, id, 1, bulkArea.x,
                               Max(bulkArea.y, parentBottom + minNodeHeight \div 2),
                               path \cup {id})

\* children.forEach of the branch for parents with a pinned child, from the
\* i-th child on.
PlaceChildrenManual(st, childMap, userPositions, id, i, parentBottom, path) ==
  LET children == ChildrenOf(childMap, id)
      childId == children[i]
      existingNodes ==
        SelectSeq(st.nodes, LAMBDA n : n.id # childId /\ ~Includes(children, n.id))
      position == findOpenSpace(existingNodes, NodeOf(st.nodes, id),
                                nodeWidth(st.nodes, childId), minNodeHeight,
                                staggerY, i - 1, Len(children))
      adjustedY == Max(position.y, parentBottom + minNodeHeight \div 2)
      after ==
        IF childId \in DOMAIN userPositions
        THEN placeSubtree(st, childMap, userPositions, childId,
                          userPositions[childId].x, userPositions[childId].y, path)
        ELSE placeSubtree(st, childMap, userPositions, childId,
                          position.x, adjustedY, path)
  IN  IF i > Len(children) \/ st.thrown # "none" THEN st
      ELSE PlaceChildrenManual(after, childMap, userPositions, id, i + 1,
                               parentBottom, path)

\* children.forEach of the bulk branch, from the i-th child on: the children
\* side by side in the reserved block.
PlaceChildrenBulk(st, childMap, userPositions, id, i, currentX, adjustedY, path) ==
  LET children == ChildrenOf(childMap, id)
      width == nodeWidth(st.nodes, children[i])
      after == placeSubtree(st, childMap, userPositions, children[i],
                            currentX + width \div 2, adjustedY, path)
  IN  IF i > Len(children) \/ st.thrown # "none" THEN st
      ELSE PlaceChildrenBulk(after, childMap, userPositions, id, i + 1,
                             currentX + width + xGap, adjustedY, path)

\* A layout that starts at the first node of the list when the root id is
\* the id of no node.
assignStaggeredTreePositionsFromFirst(nodes, edges, rootId, userPositions) ==
  LET idToNode == ObjectValuesById(nodes)
      st0 == [nodes |-> idToNode, placed |-> {}, thrown |-> "none"]
  IN  IF rootId \in NodeIds(idToNode)
      THEN placeSubtree(st0, getChildMap(edges), userPositions, rootId,
                        startX, startY, {})
      ELSE IF idToNode # <<>>
      THEN placeSubtree(st0, getChildMap(edges), userPositions, idToNode[1].id,
                        startX, startY, {})
      ELSE st0

\* A layout that, after the tree of the root, puts every node it has not
\* placed at the start position.
assignStaggeredTreePositionsAndRest(nodes, edges, rootId, userPositions) ==
  LET idToNode == ObjectValuesById(nodes)
      st0 == [nodes |-> idToNode, placed |-> {}, thrown |-> "none"]
      st == IF rootId \in NodeIds(idToNode)
            THEN placeSubtree(st0, getChildMap(edges), userPositions, rootId,
                              startX, startY, {})
            ELSE st0
  IN  [st EXCEPT !.nodes = [i \in DOMAIN st.nodes |->
                              IF st.nodes[i].id \in st.placed THEN st.nodes[i]
                              ELSE [st.nodes[i] EXCEPT !.pos = Pos(startX, startY)]]]

\* assignStaggeredTreePositions(nodes, edges, rootId, ..., userPositions): the
\* layout state at its return or at its exception.
assignStaggeredTreePositions(nodes, edges, rootId, userPositions) ==
  LET idToNode == ObjectValuesById(nodes)
      st0 == [nodes |-> idToNode, placed |-> {}, thrown |-> "none"]
  IN  IF rootId \in NodeIds(idToNode)
      THEN placeSubtree(st0, getChildMap(edges), userPositions, rootId,
                        startX, startY, {})
      ELSE st0

(***************************************************************************)
(* MindMap.tsx: resolveNodeOverlapsBoundingBox.                            *)
(*                                                                         *)
(* A box is a copy of a node; its _box is always the footprint of its      *)
(* position, so it is computed where it is read, and the boxes whose       *)
(* _moved is set are kept as a set of indices.  The boxes share the        *)
(* position objects of the nodes they copy (pobj is kept): what the        *)
(* resolver adds to a position, it adds to the caller's node.              *)
(***************************************************************************)
\* nodes.sort((a, b) => a.position.y - b.position.y): stable, by y.
RECURSIVE SortByY(_)
SortByY(nodes) ==
  IF nodes = <<>> THEN <<>>
  ELSE LET front == SortByY(SubSeq(nodes, 1, Len(nodes) - 1))
           last == nodes[Len(nodes)]
           k == Cardinality({i \in DOMAIN front : front[i].pos.y <= last.pos.y})
       IN  SubSeq(front, 1, k) \o <<last>> \o SubSeq(front, k + 1, Len(front))

\* Math.max(0, Math.min(a + aSize + minGap, b + bSize + minGap) - Math.max(a, b))
AxisOverlap(a, aSize, b, bSize, minGap) ==
  Max(0, Min(a + aSize + minGap, b + bSize + minGap) - Max(a, b))
xOverlap(a, b, minGap) == AxisOverlap(a.x, a.width, b.x, b.width, minGap)
yOverlap(a, b, minGap) == AxisOverlap(a.y, a.height, b.y, b.height, minGap)
\* The test of both loops of the resolver, on two footprints.
Overlapping(a, b, minGap) == xOverlap(a, b, minGap) > minGap /\ yOverlap(a, b, minGap) > minGap

\* The force <<fx, fy>> of one overlapping pair (a before b in the list).
ForceAlong(a, b, xo, yo, minGap, forceStrength) ==
  IF xo > yo
  THEN [x |-> 0,
        y |-> IF a.y < b.y THEN -(Quot(yo - minGap, 2) + forceStrength)
              ELSE Quot(yo - minGap, 2) + forceStrength]
  ELSE [x |-> IF a.x < b.x THEN -(Quot(xo - minGap, 2) + forceStrength)
              ELSE Quot(xo - minGap, 2) + forceStrength,
        y |-> 0]
ForceOf(a, b, xo, yo, minGap) == ForceAlong(a, b, xo, yo, minGap, Isqrt(xo * yo) \div 2)
RepulsionForce(a, b, minGap) ==
  ForceOf(a, b, xOverlap(a, b, minGap), yOverlap(a, b, minGap), minGap)

\* What the pair of the k-th and j-th box adds to the force on the k-th:
\* forceA -= f for the box that leads the pair, forceB += f for the other.
Signed(f, sign) == [x |-> sign * f.x, y |-> sign * f.y, count |-> 1]
PairPart(a, b, sign, minGap) ==
  IF Overlapping(a, b, minGap) THEN Signed(RepulsionForce(a, b, minGap), sign)
  ELSE [x |-> 0, y |-> 0, count |-> 0]
Part(boxes, k, j, minGap) ==
  IF j = k THEN [x |-> 0, y |-> 0, count |-> 0]
  ELSE IF k < j THEN PairPart(BoundsOf(boxes[k]), BoundsOf(boxes[j]), -1, minGap)
  ELSE PairPart(BoundsOf(boxes[j]), BoundsOf(boxes[k]), 1, minGap)
SumParts(parts) ==
  [x |-> SumSeq([j \in DOMAIN parts |-> parts[j].x]),
   y |-> SumSeq([j \in DOMAIN parts |-> parts[j].y]),
   count |-> SumSeq([j \in DOMAIN parts |-> parts[j].count])]
\* forces.get(boxes[k].id) after the pair loop.
NetForce(boxes, k, minGap) ==
  SumParts([j \in DOMAIN boxes |-> Part(boxes, k, j, minGap)])

Clamp(v, bound) == Max(-bound, Min(bound, v))

\* boxes.forEach of the force application, from the index-th box on; run is
\* [boxes, flagged, totalMoved, moved], flagged the boxes whose _moved is set.
Shifted(run, index, dx, dy, significant) ==
  [boxes |-> [run.boxes EXCEPT ![index].pos = Pos(@.x + dx, @.y + dy)],
   flagged |-> IF significant THEN run.flagged \cup {index} ELSE run.flagged,
   totalMoved |-> run.totalMoved + (IF significant THEN 1 ELSE 0),
   moved |-> run.moved \/ significant]
\* if (Math.abs(dx) > Math.abs(dy)) { dx *= 0.7; dy *= 1.3 }
Weighted(run, index, dx0, dy0) ==
  IF Abs(dx0) > Abs(dy0)
  THEN Shifted(run, index, Quot(dx0 * 7, 10), Quot(dy0 * 13, 10),
               Abs(Quot(dx0 * 7, 10)) > Px \/ Abs(Quot(dy0 * 13, 10)) > Px)
  ELSE Shifted(run, index, dx0, dy0, Abs(dx0) > Px \/ Abs(dy0) > Px)
RECURSIVE ApplyForces(_, _, _, _)
ApplyForces(run, forces, index, maxMovedNodes) ==
  IF index > Len(run.boxes) THEN run
  ELSE IF forces[index].count > 0 /\ run.totalMoved < maxMovedNodes
            /\ index \notin run.flagged
  THEN ApplyForces(Weighted(run, index,
                            Clamp(Quot(forces[index].x * 6, 10 * forces[index].count),
                                  30 * Px),
                            Clamp(Quot(forces[index].y * 6, 10 * forces[index].count),
                                  30 * Px)),
                   forces, index + 1, maxMovedNodes)
  ELSE ApplyForces(run, forces, index + 1, maxMovedNodes)

\* for (let iter = 0; iter < maxIters; ++iter), from iteration iter on, and
\* then the final pass.
RECURSIVE ForceLoop(_, _, _, _, _)
RECURSIVE FinalPass(_, _, _, _)
AfterIteration(run, iter, maxIters, minGap, maxMovedNodes) ==
  IF ~run.moved THEN FinalPass(run.boxes, 1, 2, minGap)
  ELSE ForceLoop([run EXCEPT !.moved = FALSE], iter + 1, maxIters, minGap, maxMovedNodes)
ForceLoop(run, iter, maxIters, minGap, maxMovedNodes) ==
  IF iter >= maxIters THEN FinalPass(run.boxes, 1, 2, minGap)
  ELSE AfterIteration(ApplyForces(run,
                                  [k \in DOMAIN run.boxes |->
                                     NetForce(run.boxes, k, minGap)],
                                  1, maxMovedNodes),
                      iter, maxIters, minGap, maxMovedNodes)

\* The final pass, from the pair <<i, j>> on: an overlapping pair is pushed
\* apart vertically.
Pushed(boxes, i, j, pushY) ==
  [boxes EXCEPT ![i].pos.y = @ - pushY, ![j].pos.y = @ + pushY]
FinalPass(boxes, i, j, minGap) ==
  IF i > Len(boxes) THEN boxes
  ELSE IF j > Len(boxes) THEN FinalPass(boxes, i + 1, i + 2, minGap)
  ELSE IF Overlapping(BoundsOf(boxes[i]), BoundsOf(boxes[j]), minGap)
  THEN FinalPass(Pushed(boxes, i, j,
                        Quot(yOverlap(BoundsOf(boxes[i]), BoundsOf(boxes[j]), minGap)
                               - minGap, 2) + 5 * Px),
                 i, j + 1, minGap)
  ELSE FinalPass(boxes, i, j + 1, minGap)

\* resolveNodeOverlapsBoundingBox(nodes, minGap, maxIters): the returned list
\* (new node objects on the position objects of the input, in the sorted
\* order).  The ids of the input are distinct at every call of the component.
resolveNodeOverlapsBoundingBox(nodes, minGap, maxIters) ==
  ForceLoop([boxes |-> SortByY(nodes), flagged |-> {}, totalMoved |-> 0, moved |-> FALSE],
            0, maxIters, minGap, CeilDiv(Len(nodes) * 3, 10))

(***************************************************************************)
(* The layout pass of an expansion and of an initial map.                  *)
(***************************************************************************)
\* obj[key] = value on a JavaScript object kept as a function.
Put(f, key, value) == [k \in DOMAIN f \cup {key} |-> IF k = key THEN value ELSE f[k]]

\* descendants.forEach of preserveExistingPositions: the stored position of
\* each descendant that is in the list.
RECURSIVE PreserveDescendants(_, _, _)
PreserveDescendants(positions, nodeList, descendants) ==
  IF descendants = <<>> THEN positions
  ELSE PreserveDescendants(
         IF Head(descendants) \in NodeIds(nodeList)
         THEN Put(positions, Head(descendants), NodeOf(nodeList, Head(descendants)).pos)
         ELSE positions,
         nodeList, Tail(descendants))

\* nodes.forEach of preserveExistingPositions, from the i-th node on.
RECURSIVE PreserveFrom(_, _, _, _, _)
PreserveFrom(positions, nodeList, i, descendants, nodeId) ==
  IF i > Len(nodeList) THEN positions
  ELSE LET own == Put(positions, nodeList[i].id, nodeList[i].pos)
       IN  PreserveFrom(IF nodeList[i].id = nodeId
                        THEN PreserveDescendants(own, nodeList, descendants)
                        ELSE own,
                        nodeList, i + 1, descendants, nodeId)

\* preserveExistingPositions(nodes, edges, existingPositions, nodeId): the
\* stored positions, overridden by the current position of every node of the
\* list.
preserveExistingPositions(nodeList, edgeList, existingPositions, nodeId) ==
  PreserveFrom(existingPositions, nodeList, 1,
               getDescendantIds(nodeId, getChildMap(edgeList)), nodeId)

\* transformGPTToFlow(gptData, isNewMindMap): nodeLevels.get(n.id) || 0, the
\* level that picks the background of each node; nodeLevels is computed on
\* the nodes and edges of gptData (further arguments of a call are not
\* parameters of the function).
StyleLevels(gptData) ==
  LET nodeLevels == calculateNodeLevels(gptData.nodes, gptData.edges)
  IN  [id \in NodeIds(gptData.nodes) |->
         IF id \in DOMAIN nodeLevels THEN nodeLevels[id] ELSE 0]

\* transformGPTToFlow: new node objects for the generated nodes (a generated
\* node is [id, len]; rnd[i] is the random position of the i-th, firstObj the
\* first unused object name) and the generated edges.
transformGPTToFlow(gptData, rnd, gen, firstObj) ==
  [nodes |-> [i \in DOMAIN gptData.nodes |->
                [MkNode(gptData.nodes[i].id, gptData.nodes[i].len, rnd[i], gen)
                   EXCEPT !.obj = firstObj + i, !.pobj = firstObj + i]],
   edges |-> gptData.edges]

\* placeSubtree assigns a new position object to every node it places.
FreshPositions(st, firstObj) ==
  [i \in DOMAIN st.nodes |->
     IF st.nodes[i].id \in st.placed
     THEN [st.nodes[i] EXCEPT !.pobj = firstObj + i] ELSE st.nodes[i]]

\* positionedNodes.map(n => existingPositions[n.id] ? n
\*                          : resolvedNewNodes.find(rn => rn.id === n.id) || n)
MergeBackResolved(positionedNodes, existingPositions, resolvedNewNodes) ==
  [i \in DOMAIN positionedNodes |->
     IF positionedNodes[i].id \in DOMAIN existingPositions
          \/ positionedNodes[i].id \notin NodeIds(resolvedNewNodes)
     THEN positionedNodes[i]
     ELSE NodeOf(resolvedNewNodes, positionedNodes[i].id)]

\* What a layout pass hands to setNodes and setEdges (obj still names the
\* object each node was copied from, copied the ids of the nodes the resolver
\* has copied), the positions it pinned and what its validation reported; a
\* pass that threw hands over nothing, nodes are then the objects it has
\* laid out so far.
Thrown(st, laidOut, edgeList, existingPositions) ==
  [thrown |-> st.thrown, nodes |-> laidOut, edges |-> edgeList,
   existingPositions |-> existingPositions, reported |-> {}, cleaned |-> FALSE,
   copied |-> {}]
\* if (validation.hasOverlaps) positionedNodes = resolveNodeOverlapsBoundingBox(
\*   positionedNodes, minNodePadding, cleanupIters)
Validated(resolved, validation, cleanupIters, copied, edgeList, existingPositions) ==
  [thrown |-> "none",
   nodes |-> IF validation.hasOverlaps
             THEN resolveNodeOverlapsBoundingBox(resolved, minNodePadding, cleanupIters)
             ELSE resolved,
   edges |-> edgeList,
   existingPositions |-> existingPositions,
   reported |-> validation.overlappingPairs,
   cleaned |-> validation.hasOverlaps,
   copied |-> IF validation.hasOverlaps THEN NodeIds(resolved) ELSE copied]
Validate(resolved, cleanupIters, copied, edgeList, existingPositions) ==
  Validated(resolved, validateNodePositions(resolved, minNodePadding), cleanupIters,
            copied, edgeList, existingPositions)

\* The resolver on the nodes that are not pinned, merged back.
ResolveUnpinned(laidOut, nodesToResolve, existingPositions) ==
  IF nodesToResolve = <<>> THEN laidOut
  ELSE MergeBackResolved(laidOut, existingPositions,
         resolveNodeOverlapsBoundingBox(nodesToResolve, minNodePadding, 50))
ExpandResolve(laidOut, nodesToResolve, edgeList, existingPositions) ==
  Validate(ResolveUnpinned(laidOut, nodesToResolve, existingPositions), 25,
           NodeIds(nodesToResolve), edgeList, existingPositions)
ExpandLaidOut(st, laidOut, edgeList, existingPositions) ==
  IF st.thrown # "none" THEN Thrown(st, laidOut, edgeList, existingPositions)
  ELSE ExpandResolve(laidOut,
                     SelectSeq(laidOut, LAMBDA n : n.id \notin DOMAIN existingPositions),
                     edgeList, existingPositions)
ExpandLayout(st, edgeList, existingPositions, firstObj) ==
  ExpandLaidOut(st, FreshPositions(st, firstObj), edgeList, existingPositions)
ExpandMerged(finalMerged, existingPositions, firstObj) ==
  ExpandLayout(assignStaggeredTreePositions(finalMerged.nodes, finalMerged.edges,
                                            finalMerged.nodes[1].id, existingPositions),
               finalMerged.edges, existingPositions, firstObj)
\* The layout pass of handleExpandClick on a generator response: closure
\* nodes and edges, userPositionsRef.current at the time of the response, the
\* expanded node, the transformed response.
ExpandPass(closureNodes, closureEdges, userPositions, nodeId, flow, firstObj) ==
  ExpandMerged(mergeExpandedNodesAndEdges(closureNodes, closureEdges,
                                          flow.nodes, flow.edges, nodeId),
               preserveExistingPositions(closureNodes, closureEdges, userPositions,
                                         nodeId),
               firstObj)

\* The layout pass of updateMindMap on the response to a new query.
InitialLaidOut(st, laidOut, edgeList, userPositions) ==
  IF st.thrown # "none" THEN Thrown(st, laidOut, edgeList, userPositions)
  ELSE Validate(resolveNodeOverlapsBoundingBox(laidOut, minNodePadding, 40), 30,
                NodeIds(laidOut), edgeList, userPositions)
InitialLayout(st, edgeList, userPositions, firstObj) ==
  InitialLaidOut(st, FreshPositions(st, firstObj), edgeList, userPositions)
InitialPass(flow, userPositions, firstObj) ==
  InitialLayout(assignStaggeredTreePositions(flow.nodes, flow.edges, flow.nodes[1].id,
                                             userPositions),
                flow.edges, userPositions, firstObj)

\* What a list that holds objects of a finished pass sees of them: the pass
\* has assigned the position of the node objects it laid out and has moved
\* position objects in place.
SeeMutations(holder, passNodes) ==
  [i \in DOMAIN holder |->
     IF \E k \in DOMAIN passNodes : passNodes[k].obj = holder[i].obj
     THEN LET f == passNodes[CHOOSE k \in DOMAIN passNodes :
                                passNodes[k].obj = holder[i].obj]
          IN  [holder[i] EXCEPT !.pos = f.pos, !.pobj = f.pobj]
     ELSE IF \E k \in DOMAIN passNodes : passNodes[k].pobj = holder[i].pobj
     THEN [holder[i] EXCEPT !.pos = (passNodes[CHOOSE k \in DOMAIN passNodes :
                                          passNodes[k].pobj = holder[i].pobj]).pos]
     ELSE holder[i]]

\* The node objects setNodes receives: the resolver returns copies.
NewObjects(passNodes, copied, firstObj) ==
  [i \in DOMAIN passNodes |->
     IF passNodes[i].id \in copied
     THEN [passNodes[i] EXCEPT !.obj = firstObj + i] ELSE passNodes[i]]

(***************************************************************************)
(* The merge specification: the three merges as pure functions.  The graph *)
(* starts as a tree the generator returned for a new map; each action      *)
(* draws a generated subgraph for a node x and applies one merge to the    *)
(* graph the previous merge returned.                                      *)
(***************************************************************************)
VARIABLES mg, ui, fn

vars == <<mg, ui, fn>>

\* The component before the first query: nothing displayed, nothing pinned,
\* no request in flight, no automation run started (preview holds the ids of
\* the nodes whose data.preview is set); last records the latest handler that ran: the node
\* it was about, the nodes and edges displayed before it, and for a handled
\* response the number of nodes the generator returned.
NoOp ==
  [op |-> "none", x |-> "", d |-> Pos(0, 0), before |-> <<>>, beforeEdges |-> <<>>,
   generated |-> 0, pins |-> <<>>, reported |-> {}, cleaned |-> FALSE, older |-> <<>>]
Mounted ==
  [nodes |-> <<>>, edges |-> <<>>, userPositions |-> <<>>, descendantMap |-> <<>>,
   inflight |-> <<>>, nextObj |-> 1, last |-> NoOp,
   queries |-> 0, clicks |-> 0, drags |-> 0, preview |-> {}, runs |-> <<>>]
\* No function of the engine has been called: fn records one call, the
\* function, its arguments (nodes, edges, x, pins, arg), the exception it
\* ended with, what it returned (out), what the caller's node array holds
\* after the call (held) and, for a call of the space search, the children
\* as placeSubtree places them on what the search returned (kids).
NoCall ==
  [op |-> "none", nodes |-> <<>>, edges |-> <<>>, x |-> "", pins |-> <<>>,
   arg |-> <<>>, thrown |-> "none", out |-> <<>>, held |-> <<>>, kids |-> <<>>]

\* Position of the i-th node of a base graph, and of a generated node
\* (transformGPTToFlow: n.position || random).
BasePos(i) == Pos(i * 200 * Px, i * 100 * Px)
GenPos == Pos(0, 0)

\* The trees a new map starts from: r alone, r -> a, r -> a with b under r or a.
BaseGraphs ==
  {[nodes |-> <<MkNode("r", LabelLen, BasePos(1), 0)>>, edges |-> <<>>],
   [nodes |-> <<MkNode("r", LabelLen, BasePos(1), 0),
                MkNode("a", LabelLen, BasePos(2), 0)>>,
    edges |-> <<MkEdge("r", "a")>>]}
  \cup
  {[nodes |-> <<MkNode("r", LabelLen, BasePos(1), 0),
                MkNode("a", LabelLen, BasePos(2), 0),
                MkNode("b", LabelLen, BasePos(3), 0)>>,
    edges |-> <<MkEdge("r", "a"), MkEdge(p, "b")>>] : p \in {"r", "a"}}

\* The subgraph the generator returns for x when it names its nodes ids (in
\* that order, repeats and known ids included): one edge from x to every
\* generated node that is new or already a child of x.
GenNodes(ids, gen) == [i \in DOMAIN ids |-> MkNode(ids[i], LabelLen, GenPos, gen)]
GenEdges(x, ids, nodes, edges) ==
  LET kids == {edges[i].target : i \in {j \in DOMAIN edges : edges[j].source = x}}
      keep == SelectSeq(ids, LAMBDA n : n # x /\ (n \notin NodeIds(nodes) \/ n \in kids))
  IN  [i \in DOMAIN keep |-> MkEdge(x, keep[i])]

MergeInit ==
  \E g \in BaseGraphs :
    /\ mg = [nodes |-> g.nodes, edges |-> g.edges,
             prevNodes |-> g.nodes, prevEdges |-> g.edges,
             op |-> "init", x |-> "r", newNodes |-> <<>>, newEdges |-> <<>>,
             steps |-> 0, inlineUsed |-> FALSE]
    /\ ui = Mounted
    /\ fn = NoCall

MergeStep(op, x, ids, result) ==
  /\ UNCHANGED <<ui, fn>>
  /\ mg' = [nodes |-> result.nodes, edges |-> result.edges,
            prevNodes |-> mg.nodes, prevEdges |-> mg.edges,
            op |-> op, x |-> x,
            newNodes |-> GenNodes(ids, mg.steps + 1),
            newEdges |-> GenEdges(x, ids, mg.nodes, mg.edges),
            steps |-> mg.steps + 1,
            inlineUsed |-> (mg.inlineUsed \/ op = "inline")]

\* mergeExpandedNodesAndEdges(prev, generated subgraph, x)
MergeExpanded ==
  /\ mg.steps < MaxMerges
  /\ \E x \in NodeIds(mg.nodes), ids \in SeqsUpTo(Ids, MaxGen) :
       MergeStep("replace", x, ids,
                 mergeExpandedNodesAndEdges(mg.nodes, mg.edges,
                                            GenNodes(ids, mg.steps + 1),
                                            GenEdges(x, ids, mg.nodes, mg.edges), x))

\* mergeNodesEdges(prev, generated subgraph)
MergeAppend ==
  /\ mg.steps < MaxMerges
  /\ \E x \in NodeIds(mg.nodes), ids \in SeqsUpTo(Ids, MaxGen) :
       MergeStep("append", x, ids,
                 mergeNodesEdges(mg.nodes, mg.edges,
                                 GenNodes(ids, mg.steps + 1),
                                 GenEdges(x, ids, mg.nodes, mg.edges)))

\* the inline merge of onNodeClick
MergeInline ==
  /\ mg.steps < MaxMerges
  /\ \E x \in NodeIds(mg.nodes), ids \in SeqsUpTo(Ids, MaxGen) :
       MergeStep("inline", x, ids,
                 inlineMerge(mg.nodes, mg.edges,
                             GenNodes(ids, mg.steps + 1),
                             GenEdges(x, ids, mg.nodes, mg.edges)))

MergeNext == MergeExpanded \/ MergeAppend \/ MergeInline

SpecMerge == MergeInit /\ [][MergeNext]_vars


(***************************************************************************)
(* Claims about the merges, checked under SpecMerge.                       *)
(***************************************************************************)
NoDupIds(s) == \A i, j \in DOMAIN s : i # j => s[i].id # s[j].id
WellFormedEdges(nodes, edges) ==
  \A i \in DOMAIN edges :
    edges[i].source \in NodeIds(nodes) /\ edges[i].target \in NodeIds(nodes)

\* The ids that are reachable from x, and from the root (the first node) only
\* through a child of x: the descendants of x that are cut off from the root
\* when the children of x are taken out.
OnlyThroughChildren(x, nodes, edges) ==
  LET kids == {edges[i].target : i \in {j \in DOMAIN edges : edges[j].source = x}}
      rest == SelectSeq(edges, LAMBDA e : e.source \notin kids /\ e.target \notin kids)
  IN  Descendants(x, edges) \ ReachFrom({nodes[1].id} \ kids, rest)

\* C1: after a replace-children merge on x, the result holds no node of the
\* previous graph that was reachable only through the old children of x (the
\* old children and all their descendants are gone).
C1_DescendantsRemoved ==
  mg.op = "replace" =>
    \A i \in DOMAIN mg.nodes :
      mg.nodes[i] \in Range(mg.prevNodes) =>
        mg.nodes[i].id \notin OnlyThroughChildren(mg.x, mg.prevNodes, mg.prevEdges)

\* C2: after a replace-children merge on x of a graph whose edges all had both
\* ends among its nodes, with new edges that only connect x to generated
\* nodes, every edge of the result has both ends among the nodes of the result.
C2_NoDanglingEdge ==
  ( /\ mg.op = "replace"
    /\ WellFormedEdges(mg.prevNodes, mg.prevEdges)
    /\ \A i \in DOMAIN mg.newEdges :
         mg.newEdges[i].source = mg.x /\ mg.newEdges[i].target \in NodeIds(mg.newNodes) )
  => WellFormedEdges(mg.nodes, mg.edges)

\* C6: an append-new-only merge (mergeNodesEdges or the inline merge) of S into
\* a graph without repeated ids is idempotent (merging S again leaves the node
\* ids and the edge ids as they are) and its result repeats no id.
C6_AppendIdempotentNoDup ==
  ( /\ mg.op \in {"append", "inline"}
    /\ NoDupIds(mg.prevNodes) /\ NoDupIds(mg.prevEdges) )
  => LET again == IF mg.op = "append"
                  THEN mergeNodesEdges(mg.nodes, mg.edges, mg.newNodes, mg.newEdges)
                  ELSE inlineMerge(mg.nodes, mg.edges, mg.newNodes, mg.newEdges)
     IN  /\ NodeIds(again.nodes) = NodeIds(mg.nodes)
         /\ EdgeIds(again.edges) = EdgeIds(mg.edges)
         /\ Len(again.nodes) = Len(mg.nodes)
         /\ Len(again.edges) = Len(mg.edges)
         /\ NoDupIds(mg.nodes)
         /\ NoDupIds(mg.edges)

\* C8: after any sequence of replace-children and append-new-only merges the
\* node ids are pairwise distinct and the edge ids are pairwise distinct.
C8_IdsDistinct ==
  ~mg.inlineUsed => NoDupIds(mg.nodes) /\ NoDupIds(mg.edges)

\* The ids a merge retains: all of them, less the old children of x under the
\* replace-children policy.
RetainedIds ==
  NodeIds(mg.prevNodes) \
    (IF mg.op = "replace"
     THEN {mg.prevEdges[i].target : i \in {j \in DOMAIN mg.prevEdges :
                                             mg.prevEdges[j].source = mg.x}}
     ELSE {})

\* C9: under both policies every retained node is unchanged: whatever the
\* result holds under a retained id is the node object of the previous graph,
\* also when the generated subgraph holds a node of that id.
C9_RetainedUnchanged ==
  mg.op \in {"replace", "append"} =>
    \A i \in DOMAIN mg.nodes :
      mg.nodes[i].id \in RetainedIds => mg.nodes[i] \in Range(mg.prevNodes)

(***************************************************************************)
(* The component specification: MindMap.tsx as a state machine.            *)
(*                                                                         *)
(* ui.nodes and ui.edges are the React state, ui.userPositions and         *)
(* ui.descendantMap the refs, ui.inflight the generator requests that have *)
(* not been answered: each is the closure of the handler that awaits it    *)
(* (the nodes and edges of the render in which the handler was created).   *)
(* Responses arrive in any order.                                          *)
(***************************************************************************)
\* The merge specification at rest.
MergeIdle ==
  [nodes |-> <<>>, edges |-> <<>>, prevNodes |-> <<>>, prevEdges |-> <<>>,
   op |-> "init", x |-> "r", newNodes |-> <<>>, newEdges |-> <<>>,
   steps |-> 0, inlineUsed |-> FALSE]

\* The ids the generator names new nodes with, in the order it uses them.
IdPool == <<"a", "b", "c", "d", "e", "f">>
\* The first k ids of the pool that are not in the context sent with the
\* request ("all IDs must be unique and must not conflict with existing IDs").
FreshIds(context, k) ==
  LET free == SelectSeq(IdPool, LAMBDA id : id \notin NodeIds(context))
  IN  SubSeq(free, 1, Min(k, Len(free)))

\* A generator response with k new children of x: gpt.ts, buildPrompt.
Children(x, context, k) ==
  LET ids == FreshIds(context, k)
  IN  [nodes |-> [i \in DOMAIN ids |-> [id |-> ids[i], len |-> LabelLen]],
       edges |-> [i \in DOMAIN ids |-> MkEdge(x, ids[i])]]
\* The response to a new query: the root and its children.
NewMap(k) ==
  LET sub == Children("r", <<>>, k)
  IN  [nodes |-> <<[id |-> "r", len |-> LabelLen]>> \o sub.nodes, edges |-> sub.edges]
\* queryGPT resolves to null when the call fails (useGPT.ts).
Null == [nodes |-> <<>>, edges |-> <<>>, failed |-> TRUE]
Answer(gptData) == [nodes |-> gptData.nodes, edges |-> gptData.edges, failed |-> FALSE]
InitialResponses == {Null, Answer(NewMap(RootChildren))}
ExpandResponses(req) ==
  {Null} \cup {Answer(Children(req.x, context, k)) :
                 k \in 0..MaxChildren, context \in {req.nodes, req.nodes \o ui.nodes}}

\* Math.random() * 400, Math.random() * 300: the draws of one response, one
\* position for each generated node.
RandomPositions == <<Pos(0, 0), Pos(399 * Px, 299 * Px)>>
RandomDraws(n) ==
  {[i \in 1..n |-> RandomPositions[1 + ((i + shift) % Len(RandomPositions))]] :
     shift \in DOMAIN RandomPositions}

\* The names of the objects carry no meaning: after each handler the objects
\* the component still holds (displayed or in a waiting closure) are named
\* 1, 2, ... in the order they are met.
Held(u) == u.nodes \o Flatten([k \in DOMAIN u.inflight |-> u.inflight[k].nodes])
RankOf(names, name) ==
  LET first == CHOOSE i \in DOMAIN names :
                 names[i] = name /\ \A j \in 1..(i - 1) : names[j] # name
  IN  Cardinality({names[j] : j \in 1..first})
Renamed(nodeList, objs, pobjs) ==
  [i \in DOMAIN nodeList |->
     [nodeList[i] EXCEPT !.obj = RankOf(objs, @), !.pobj = RankOf(pobjs, @)]]
Canonical(u) ==
  LET held == Held(u)
      objs == [i \in DOMAIN held |-> held[i].obj]
      pobjs == [i \in DOMAIN held |-> held[i].pobj]
  IN  [u EXCEPT !.nodes = Renamed(@, objs, pobjs),
                !.inflight = [k \in DOMAIN u.inflight |->
                                [u.inflight[k] EXCEPT !.nodes = Renamed(@, objs, pobjs)]],
                !.nextObj = 1 + Max(Cardinality(Range(objs)), Cardinality(Range(pobjs)))]
\* The nodes of a list without the names of their objects.
Values(nodeList) == [i \in DOMAIN nodeList |-> [nodeList[i] EXCEPT !.obj = 0, !.pobj = 0]]
\* The moves of a drag.
DragDeltas == {Pos(0, -50 * Px), Pos(-100 * Px, -45 * Px)}

\* The effect on [edges]: descendantMapRef.
DescendantMapOf(edgeList) ==
  [id \in {edgeList[i].source : i \in DOMAIN edgeList}
            \cup {edgeList[i].target : i \in DOMAIN edgeList} |->
     Range(getDescendantIds(id, getChildMap(edgeList)))]

Without(s, i) == SubSeq(s, 1, i - 1) \o SubSeq(s, i + 1, Len(s))
Request(kind, x, closureNodes, closureEdges) ==
  [kind |-> kind, x |-> x, nodes |-> closureNodes, edges |-> closureEdges]
\* The closures that wait for a response hold node objects of the pass.
Waiting(requests, passNodes) ==
  [k \in DOMAIN requests |->
     [requests[k] EXCEPT !.nodes = SeeMutations(@, passNodes)]]

Init == ui = Mounted /\ mg = MergeIdle /\ fn = NoCall

\* updateMindMap up to its await: the trigger of a new query.
Submitted(u) ==
  [u EXCEPT !.queries = @ + 1,
            !.userPositions = <<>>,
            !.inflight = Append(@, Request("initial", "", <<>>, <<>>)),
            !.last = [NoOp EXCEPT !.op = "query", !.before = Values(u.nodes)]]
SubmitQuery ==
  /\ ui.queries < MaxQueries
  /\ ui' = Submitted(ui)
  /\ UNCHANGED <<mg, fn>>

\* A handler whose request failed returns without a change.
Failed(u, i, op, x) ==
  [u EXCEPT !.inflight = Without(@, i),
            !.last = [NoOp EXCEPT !.op = op, !.x = x, !.before = Values(u.nodes),
                                  !.beforeEdges = u.edges]]
\* A handler that has run its layout pass: setNodes, setEdges and the refs;
\* a pass that threw leaves the state as it is, but for the objects it has
\* laid out.
Settled(u, i, op, x, pass, firstObj, generated) ==
  IF pass.thrown # "none"
  THEN [u EXCEPT !.inflight = Waiting(Without(@, i), pass.nodes),
                 !.nodes = SeeMutations(@, pass.nodes),
                 !.nextObj = firstObj,
                 !.last = [NoOp EXCEPT !.op = pass.thrown, !.x = x,
                                       !.before = Values(u.nodes),
                                       !.beforeEdges = u.edges,
                                       !.generated = generated,
                                       !.pins = pass.existingPositions]]
  ELSE [u EXCEPT !.inflight = Waiting(Without(@, i), pass.nodes),
                 !.nodes = NewObjects(pass.nodes, pass.copied, firstObj),
                 !.edges = pass.edges,
                 !.userPositions = pass.existingPositions,
                 !.descendantMap = DescendantMapOf(pass.edges),
                 !.nextObj = firstObj,
                 !.last = [op |-> op, x |-> x, d |-> Pos(0, 0),
                           before |-> Values(u.nodes),
                           beforeEdges |-> u.edges,
                           generated |-> generated,
                           pins |-> pass.existingPositions,
                           reported |-> pass.reported, cleaned |-> pass.cleaned,
                           older |-> <<>>]]
\* Object names no node of the pass carries: a pass on n new nodes names its
\* objects within Span(n) of the first unused name.
Span(u, gptData) == 2 * (Len(u.nodes) + Len(Held(u)) + Len(gptData.nodes) + 1)

\* updateMindMap from its await on.
Shown(u, i, gptData, rnd) ==
  Canonical(
    IF gptData.failed THEN Failed(u, i, "initialNull", "")
    ELSE Settled(u, i, "initial", "",
                 InitialPass(transformGPTToFlow(gptData, rnd, 0, u.nextObj),
                             u.userPositions,
                             u.nextObj + Span(u, gptData)),
                 u.nextObj + 2 * Span(u, gptData),
                 Len(gptData.nodes)))
InitialResult ==
  /\ \E i \in DOMAIN ui.inflight, gptData \in InitialResponses :
       /\ ui.inflight[i].kind = "initial"
       /\ \E rnd \in RandomDraws(Len(gptData.nodes)) :
            ui' = Shown(ui, i, gptData, rnd)
  /\ UNCHANGED <<mg, fn>>

\* The expand button is drawn on every displayed node but the first of the
\* list (isRoot: node.id === nodes[0]?.id).
Clickable == {ui.nodes[i].id : i \in {j \in DOMAIN ui.nodes : j > 1 /\ ~ui.nodes[j].hidden}}
hasChildren(edgeList, nodeId) == ChildrenOf(getChildMap(edgeList), nodeId) # <<>>

\* handleExpandClick on a node without children, up to its await: the
\* handler keeps the nodes and edges of its render and asks the generator.
Asked(u, nodeId) ==
  [u EXCEPT !.clicks = @ + 1,
            !.inflight = Append(@, Request("expand", nodeId, u.nodes, u.edges)),
            !.last = [NoOp EXCEPT !.op = "click", !.x = nodeId,
                                  !.before = Values(u.nodes)]]
ExpandClick ==
  /\ ui.clicks < MaxClicks
  /\ ui.clicks + ui.drags < MaxGestures
  /\ \E nodeId \in Clickable :
       /\ ~hasChildren(ui.edges, nodeId)
       /\ ui' = Asked(ui, nodeId)
  /\ UNCHANGED <<mg, fn>>

\* handleExpandClick on a node with children: collapse or expand.
Toggled(nodeList, descendantIds, nodeId, isExpanded, firstObj) ==
  [i \in DOMAIN nodeList |->
     [nodeList[i] EXCEPT
        !.hidden = IF Includes(descendantIds, nodeList[i].id)
                   THEN Truthy(isExpanded) ELSE @,
        !.isExpanded = IF nodeList[i].id = nodeId
                       THEN (IF Truthy(isExpanded) THEN "false" ELSE "true") ELSE @,
        !.obj = firstObj + i]]
ToggleChildren ==
  /\ ui.clicks < MaxClicks
  /\ ui.clicks + ui.drags < MaxGestures
  /\ \E nodeId \in Clickable :
       /\ hasChildren(ui.edges, nodeId)
       /\ ui' = Canonical([ui EXCEPT
                    !.clicks = @ + 1,
                    !.nodes = Toggled(ui.nodes,
                                      getDescendantIds(nodeId, getChildMap(ui.edges)),
                                      nodeId, NodeOf(ui.nodes, nodeId).isExpanded,
                                      ui.nextObj),
                    !.nextObj = @ + Len(ui.nodes),
                    !.last = [NoOp EXCEPT !.op = "toggle", !.x = nodeId,
                                          !.before = Values(ui.nodes)]])
  /\ UNCHANGED <<mg, fn>>

\* handleExpandClick from its await on: the response to an expansion request.
Answered(u, i, gptData, rnd) ==
  Canonical(
    IF gptData.failed THEN Failed(u, i, "expandNull", u.inflight[i].x)
    ELSE Settled(u, i, "expand", u.inflight[i].x,
                 ExpandPass(u.inflight[i].nodes, u.inflight[i].edges,
                            u.userPositions, u.inflight[i].x,
                            transformGPTToFlow(gptData, rnd, 1, u.nextObj),
                            u.nextObj + Span(u, gptData)),
                 u.nextObj + 2 * Span(u, gptData),
                 Len(gptData.nodes)))
ExpandResult ==
  /\ \E i \in DOMAIN ui.inflight :
       /\ ui.inflight[i].kind = "expand"
       /\ \E gptData \in ExpandResponses(ui.inflight[i]) :
          \E rnd \in RandomDraws(Len(gptData.nodes)) :
            ui' = Answered(ui, i, gptData, rnd)
  /\ UNCHANGED <<mg, fn>>

\* nodeMap of onNodesChange: the last node of an id.
LastOfId(nodeList, id) ==
  nodeList[CHOOSE i \in DOMAIN nodeList :
             nodeList[i].id = id /\ \A j \in DOMAIN nodeList : j > i => nodeList[j].id # id]

\* The single pass of onNodesChange over the list: the nodes queued in
\* positionUpdates (updated) move by <<dx, dy>>, and their new positions are
\* stored in userPositionsRef.
ApplyPositionUpdates(nodeList, userPositions, updated, dx, dy, firstObj) ==
  [nodes |-> [i \in DOMAIN nodeList |->
                IF nodeList[i].id \in updated
                THEN [nodeList[i] EXCEPT
                        !.pos = Pos(LastOfId(nodeList, nodeList[i].id).pos.x + dx,
                                    LastOfId(nodeList, nodeList[i].id).pos.y + dy),
                        !.obj = firstObj + i,
                        !.pobj = firstObj + i]
                ELSE nodeList[i]],
   userPositions |->
     [k \in DOMAIN userPositions \cup updated |->
        IF k \in updated
        THEN Pos(LastOfId(nodeList, k).pos.x + dx, LastOfId(nodeList, k).pos.y + dy)
        ELSE userPositions[k]]]

\* A drag handler that moves the node and its children but leaves the
\* descendants of the children where they are.
onNodesChangeChildrenOnly(nodeList, descendantMap, userPositions, id, position, firstObj) ==
  IF id \notin NodeIds(nodeList) \/ position = LastOfId(nodeList, id).pos
  THEN [nodes |-> nodeList, userPositions |-> userPositions]
  ELSE ApplyPositionUpdates(
         nodeList, userPositions,
         {id} \cup {c \in (IF id \in DOMAIN descendantMap THEN descendantMap[id] ELSE {}) :
                      /\ c \in NodeIds(nodeList)
                      /\ \A m \in descendantMap[id] :
                           m \in DOMAIN descendantMap => c \notin descendantMap[m]},
         position.x - LastOfId(nodeList, id).pos.x,
         position.y - LastOfId(nodeList, id).pos.y, firstObj)

\* onNodesChange(changes) for one position change that moves node id to
\* position: the new node list, in one setNodes, and the positions it stores.
onNodesChange(nodeList, descendantMap, userPositions, id, position, firstObj) ==
  IF id \notin NodeIds(nodeList) \/ position = LastOfId(nodeList, id).pos
  THEN [nodes |-> nodeList, userPositions |-> userPositions]
  ELSE ApplyPositionUpdates(
         nodeList, userPositions,
         {id} \cup ((IF id \in DOMAIN descendantMap THEN descendantMap[id] ELSE {})
                      \cap NodeIds(nodeList)),
         position.x - LastOfId(nodeList, id).pos.x,
         position.y - LastOfId(nodeList, id).pos.y, firstObj)

\* onNodesChange of the older component (part_011) for one position change of
\* a drag: the list it hands to setNodes, from the nodes and edges of its
\* render.
onNodesChangeOlder(nodeList, edgeList, id, position) ==
  LET descendantIds == getDescendantIds(id, getChildMap(edgeList))
      dx == position.x - (IF id \in NodeIds(nodeList) THEN NodeOf(nodeList, id).pos.x ELSE 0)
      dy == position.y - (IF id \in NodeIds(nodeList) THEN NodeOf(nodeList, id).pos.y ELSE 0)
  IN  [i \in DOMAIN nodeList |->
         IF nodeList[i].id = id THEN [nodeList[i] EXCEPT !.pos = position]
         ELSE IF Includes(descendantIds, nodeList[i].id)
         THEN [nodeList[i] EXCEPT !.pos = Pos(@.x + dx, @.y + dy)]
         ELSE nodeList[i]]

\* The user drags a displayed node.  last.older is the list the handler of
\* the older component builds for the same drag.
Dragged(u, id, d, to) ==
  Canonical([u EXCEPT
     !.drags = @ + 1,
     !.nodes = onNodesChange(u.nodes, u.descendantMap, u.userPositions,
                             id, to, u.nextObj).nodes,
     !.userPositions = onNodesChange(u.nodes, u.descendantMap, u.userPositions,
                                     id, to, u.nextObj).userPositions,
     !.nextObj = @ + Len(u.nodes),
     !.last = [NoOp EXCEPT !.op = "drag", !.x = id, !.d = d,
                           !.before = Values(u.nodes),
                           !.older = Values(onNodesChangeOlder(u.nodes, u.edges, id, to))]])
Drag ==
  /\ ui.drags < MaxDrags
  /\ ui.clicks + ui.drags < MaxGestures
  /\ \E i \in DOMAIN ui.nodes, d \in DragDeltas :
       /\ ~ui.nodes[i].hidden
       /\ ui' = Dragged(ui, ui.nodes[i].id, d,
                        Pos(ui.nodes[i].pos.x + d.x, ui.nodes[i].pos.y + d.y))
  /\ UNCHANGED <<mg, fn>>

Next == SubmitQuery \/ InitialResult \/ ExpandClick \/ ToggleChildren
          \/ ExpandResult \/ Drag

Spec == Init /\ [][Next]_vars

(***************************************************************************)
(* The toggle specification: the expand button clicked on nodes that have  *)
(* children, on a map that a query and some expansions have built.         *)
(***************************************************************************)
\* Expansions that built the map before the first toggle.
MaxGrowth == 3

\* The map a new query displays.
FirstMap ==
  Shown(Submitted(Mounted), 1, Answer(NewMap(RootChildren)),
        CHOOSE rnd \in RandomDraws(RootChildren + 1) : TRUE)
\* The displayed leaves: their expand button asks the generator.
Leaves(u) ==
  {u.nodes[i].id : i \in {j \in DOMAIN u.nodes :
                            /\ j > 1 /\ ~u.nodes[j].hidden
                            /\ ~hasChildren(u.edges, u.nodes[j].id)}}
\* The map after the expansion of leaf x, no other request outstanding.
Expanded(u, x) ==
  Answered(Asked(u, x), Len(u.inflight) + 1, Answer(Children(x, u.nodes, MaxChildren)),
           CHOOSE rnd \in RandomDraws(Len(Children(x, u.nodes, MaxChildren).nodes)) : TRUE)
\* The maps at most n expansions build from u.
RECURSIVE GrownMaps(_, _)
GrownMaps(u, n) ==
  IF n = 0 THEN {u}
  ELSE {u} \cup UNION {GrownMaps(Expanded(u, x), n - 1) : x \in Leaves(u)}

ToggleInit ==
  /\ ui \in {[u EXCEPT !.clicks = 0] : u \in GrownMaps(FirstMap, MaxGrowth)}
  /\ mg = MergeIdle
  /\ fn = NoCall
ToggleNext == ToggleChildren
SpecToggle == ToggleInit /\ [][ToggleNext]_vars

(***************************************************************************)
(* The automation specification: the effect on automateSignal and its      *)
(* expandRandomNodes, on the map of a new query; every node of the map but *)
(* at most one has data.preview.                                           *)
(* A run is [cancelled, count, i, localExpanded, localNodes, localEdges,   *)
(* at, picked, picks, applied]: the variables of one call of the effect,   *)
(* where the async function waits (at: "response", "timer", or "done" and  *)
(* "thrown" when it has ended), the ids it has picked, in order, and how   *)
(* often it has called setNodes and setEdges.  The lists of a run are kept *)
(* by value.                                                               *)
(***************************************************************************)
\* The automateCount prop and the changes of automateSignal that are
\* followed.
AutomateCount == 2
MaxRuns == 2

\* expandable(): localNodes.filter(n => !localExpanded[n.id] && n.data?.preview)
expandable(run, preview) ==
  SelectSeq(run.localNodes, LAMBDA n : n.id \notin run.localExpanded /\ n.id \in preview)

\* The for loop from its head to the await of queryGPT: the runs it can
\* become, one for each candidate Math.random() can pick.
LoopHead(run, preview) ==
  IF run.i < run.count /\ expandable(run, preview) # <<>> /\ ~run.cancelled
  THEN {[run EXCEPT !.at = "response", !.picked = picked,
                    !.picks = Append(@, picked),
                    !.localExpanded = @ \cup {picked}] :
          picked \in NodeIds(expandable(run, preview))}
  ELSE {[run EXCEPT !.at = "done"]}

\* expandRandomNodes up to its loop: the closure of the effect.
Started(u) ==
  LET run == [cancelled |-> FALSE, count |-> 0, i |-> 0, localExpanded |-> {},
              localNodes |-> Values(u.nodes), localEdges |-> u.edges,
              at |-> "done", picked |-> "", picks |-> <<>>, applied |-> 0]
  IN  [run EXCEPT !.count = Min(AutomateCount, Len(expandable(run, u.preview)))]

\* return () => { cancelled = true; }: the cleanup of the latest effect.
CleanedUp(runs) ==
  [k \in DOMAIN runs |-> IF k = Len(runs) THEN [runs[k] EXCEPT !.cancelled = TRUE]
                         ELSE runs[k]]

\* automateSignal changes: React runs the cleanup of the previous effect
\* and then the effect, which starts expandRandomNodes.
AutomateSignal ==
  /\ Len(ui.runs) < MaxRuns
  /\ ui.nodes # <<>>
  /\ \E run \in LoopHead(Started(ui), ui.preview) :
       ui' = [ui EXCEPT !.runs = Append(CleanedUp(@), run),
                        !.last = [NoOp EXCEPT !.op = "signal",
                                              !.before = Values(ui.nodes),
                                              !.beforeEdges = ui.edges]]
  /\ UNCHANGED <<mg, fn>>

\* localNodes.forEach of expandRandomNodes, from the i-th node on: a position
\* is stored for a node that has none, and for the descendants of the picked
\* node.
RECURSIVE AutomatePreserveFrom(_, _, _, _, _)
AutomatePreserveFrom(positions, nodeList, i, descendants, nodeId) ==
  IF i > Len(nodeList) THEN positions
  ELSE LET own == IF nodeList[i].id \in DOMAIN positions THEN positions
                  ELSE Put(positions, nodeList[i].id, nodeList[i].pos)
       IN  AutomatePreserveFrom(IF nodeList[i].id = nodeId
                                THEN PreserveDescendants(own, nodeList, descendants)
                                ELSE own,
                                nodeList, i + 1, descendants, nodeId)

\* The layout pass of expandRandomNodes: resolver on the nodes that are not
\* pinned, cleanup when the validation counts more than three overlaps.
AutomateLaidOut(st, edgeList, existingPositions) ==
  IF st.thrown # "none" THEN Thrown(st, st.nodes, edgeList, existingPositions)
  ELSE LET nodesToResolve ==
             SelectSeq(st.nodes, LAMBDA n : n.id \notin DOMAIN existingPositions)
           resolved ==
             IF nodesToResolve = <<>> THEN st.nodes
             ELSE MergeBackResolved(st.nodes, existingPositions,
                    resolveNodeOverlapsBoundingBox(nodesToResolve, minNodePadding, 40))
           validation == validateNodePositions(resolved, minNodePadding)
       IN  Validated(resolved,
                     [validation EXCEPT !.hasOverlaps = @ /\ validation.overlapCount > 3],
                     20, NodeIds(nodesToResolve), edgeList, existingPositions)
AutomateMerged(merged, existingPositions) ==
  AutomateLaidOut(assignStaggeredTreePositions(merged.nodes, merged.edges,
                                               merged.nodes[1].id, existingPositions),
                  merged.edges, existingPositions)
AutomatePass(run, userPositions, flow) ==
  AutomateMerged(mergeExpandedNodesAndEdges(run.localNodes, run.localEdges,
                                            flow.nodes, flow.edges, run.picked),
                 AutomatePreserveFrom(userPositions, run.localNodes, 1,
                                      getDescendantIds(run.picked,
                                                       getChildMap(run.localEdges)),
                                      run.picked))

\* expandRandomNodes from the await of queryGPT to the await of the timer:
\* run k has the response (null, or MaxChildren new children of the picked
\* node), whose new nodes have data.preview or not.
Automated(u, k, pass, newPreview) ==
  IF pass.thrown # "none"
  THEN [u EXCEPT !.runs[k].at = "thrown",
                 !.last = [NoOp EXCEPT !.op = pass.thrown, !.x = u.runs[k].picked,
                                       !.before = Values(u.nodes),
                                       !.beforeEdges = u.edges]]
  ELSE Canonical(
         [u EXCEPT !.nodes = [i \in DOMAIN pass.nodes |->
                                [pass.nodes[i] EXCEPT !.obj = u.nextObj + i,
                                                      !.pobj = u.nextObj + i]],
                   !.edges = pass.edges,
                   !.userPositions = pass.existingPositions,
                   !.descendantMap = DescendantMapOf(pass.edges),
                   !.nextObj = @ + Len(pass.nodes),
                   !.preview = @ \cup newPreview,
                   !.runs[k].localNodes = Values(pass.nodes),
                   !.runs[k].localEdges = pass.edges,
                   !.runs[k].applied = @ + 1,
                   !.runs[k].at = "timer",
                   !.last = [NoOp EXCEPT !.op = "automate", !.x = u.runs[k].picked,
                                         !.before = Values(u.nodes),
                                         !.beforeEdges = u.edges]])
\* The context sent with the request of a run, and the ids of its edges: the
\* generator names its new nodes with ids that are in neither.
Named(run) ==
  LET used == NodeIds(run.localNodes)
                \cup {run.localEdges[i].source : i \in DOMAIN run.localEdges}
                \cup {run.localEdges[i].target : i \in DOMAIN run.localEdges}
      ids == SelectSeq(<<"r">> \o IdPool, LAMBDA id : id \in used)
  IN  [i \in DOMAIN ids |-> [id |-> ids[i]]]
AutomateResult ==
  /\ \E k \in DOMAIN ui.runs :
       /\ ui.runs[k].at = "response"
       /\ \E failed, preview \in BOOLEAN :
            LET gptData == Children(ui.runs[k].picked, Named(ui.runs[k]), MaxChildren)
                rnd == [i \in DOMAIN gptData.nodes |-> RandomPositions[1]]
            IN  ui' = IF failed
                      THEN [ui EXCEPT !.runs[k].at = "timer",
                                      !.last = [NoOp EXCEPT !.op = "automateNull",
                                                            !.x = ui.runs[k].picked,
                                                            !.before = Values(ui.nodes),
                                                            !.beforeEdges = ui.edges]]
                      ELSE Automated(ui, k,
                                     AutomatePass(ui.runs[k], ui.userPositions,
                                                  transformGPTToFlow(gptData, rnd, 1, 0)),
                                     IF preview THEN NodeIds(gptData.nodes) ELSE {})
  /\ UNCHANGED <<mg, fn>>

\* The timer of run k fires: ++i and the loop from its head.
AutomateTimer ==
  /\ \E k \in DOMAIN ui.runs :
       /\ ui.runs[k].at = "timer"
       /\ \E run \in LoopHead([ui.runs[k] EXCEPT !.i = @ + 1], ui.preview) :
            ui' = [ui EXCEPT !.runs[k] = run,
                             !.last = [NoOp EXCEPT !.op = "timer",
                                                   !.before = Values(ui.nodes),
                                                   !.beforeEdges = ui.edges]]
  /\ UNCHANGED <<mg, fn>>

AutomateInit ==
  /\ ui \in {[FirstMap EXCEPT !.preview = NodeIds(FirstMap.nodes) \ plain] :
               plain \in {{}} \cup {{id} : id \in NodeIds(FirstMap.nodes)}}
  /\ mg = MergeIdle
  /\ fn = NoCall
AutomateNext == AutomateSignal \/ AutomateResult \/ AutomateTimer
SpecAutomate == AutomateInit /\ [][AutomateNext]_vars

(***************************************************************************)
(* Claims on the component specification.                                  *)
(***************************************************************************)
\* The latest handler was the layout pass of an expansion, applied.
ExpansionApplied == ui.last.op = "expand"
\* Two footprints keep the minimum gap.
Separated(a, b) == ~checkCollisionWithSpacing(BoundsOf(a), BoundsOf(b), minNodePadding)
\* The ids X and every descendant of X along the displayed edges.
SubtreeOf(x) == {x} \cup Descendants(x, ui.edges)

\* C3: after the layout pass of an expansion (tree layout, resolver on the
\* new nodes, validation-triggered cleanup) every displayed node whose id the
\* pass had pinned is where the pin says, i.e. where it was before the pass.
C3_PinnedUnmoved ==
  ExpansionApplied =>
    \A i \in DOMAIN ui.nodes :
      ui.nodes[i].id \in DOMAIN ui.last.pins =>
        ui.nodes[i].pos = ui.last.pins[ui.nodes[i].id]

\* C4: after the layout pass of an initial map or of an expansion, any two
\* displayed nodes keep the minimum gap unless the validation of that pass
\* reported the pair.
C4_GapOrReported ==
  ui.last.op \in {"initial", "expand"} =>
    \A i, j \in DOMAIN ui.nodes :
      (i < j /\ ~ui.nodes[i].hidden /\ ~ui.nodes[j].hidden) =>
        \/ Separated(ui.nodes[i], ui.nodes[j])
        \/ {ui.nodes[i].id, ui.nodes[j].id} \in ui.last.reported

\* C5: the node list a drag of X by (dx, dy) installs has X and every
\* descendant of X moved by exactly (dx, dy) and every other node where it
\* was: the one replacement of the list moves the whole subtree.  The handler
\* of the older component builds the same list.
C5_DragMovesSubtree ==
  ui.last.op = "drag" =>
    /\ Len(ui.nodes) = Len(ui.last.before)
    /\ \A i \in DOMAIN ui.nodes :
         /\ ui.nodes[i].id = ui.last.before[i].id
         /\ ui.nodes[i].pos =
              IF ui.nodes[i].id \in SubtreeOf(ui.last.x)
              THEN Pos(ui.last.before[i].pos.x + ui.last.d.x,
                       ui.last.before[i].pos.y + ui.last.d.y)
              ELSE ui.last.before[i].pos
    /\ Values(ui.nodes) = ui.last.older
\* C5, the case: a drag of a node that has a grandchild, with a node outside
\* its subtree in the list.
C5_Witness ==
  /\ ui.last.op = "drag"
  /\ \E c \in Descendants(ui.last.x, ui.edges) :
       Descendants(c, ui.edges) \cap NodeIds(ui.nodes) # {}
  /\ NodeIds(ui.nodes) \ SubtreeOf(ui.last.x) # {}

\* C7: when the result of an expansion is applied, every node that was
\* displayed before and is still in the list is displayed where it was.
C7_RetainedUnmoved ==
  ExpansionApplied =>
    \A i \in DOMAIN ui.last.before :
      ui.last.before[i].id \in NodeIds(ui.nodes) =>
        NodeOf(ui.nodes, ui.last.before[i].id).pos = ui.last.before[i].pos

\* C10: no two expansion requests for the same node are in flight.
C10_OneRequestPerNode ==
  \A i, j \in DOMAIN ui.inflight :
    (i # j /\ ui.inflight[i].kind = "expand" /\ ui.inflight[j].kind = "expand") =>
      ui.inflight[i].x # ui.inflight[j].x

\* The latest handler handled the response to an expansion request for X.
ResponseHandled == ui.last.op \in {"expand", "expandNull"}

\* C11: when the response to an expansion request for X is handled and X is
\* no longer among the displayed nodes, the displayed node set and the
\* displayed edge set are what they were before the response.
C11_StaleResultIgnored ==
  (ResponseHandled /\ ui.last.x \notin NodeIds(ui.last.before)) =>
    /\ NodeIds(ui.nodes) = NodeIds(ui.last.before)
    /\ Range(ui.edges) = Range(ui.last.beforeEdges)

\* C12: handling a null response or a response with empty node and edge
\* arrays to an expansion request leaves the displayed nodes, their
\* positions and the displayed edges as they were.
C12_EmptyResultNoChange ==
  (ResponseHandled /\ ui.last.generated = 0) =>
    /\ NodeIds(ui.nodes) = NodeIds(ui.last.before)
    /\ Range(ui.edges) = Range(ui.last.beforeEdges)
    /\ \A i \in DOMAIN ui.last.before :
         ui.last.before[i].id \in NodeIds(ui.nodes) =>
           NodeOf(ui.nodes, ui.last.before[i].id).pos = ui.last.before[i].pos

\* C23: the user-positions entry of every displayed node that has one is the
\* position the node is displayed at, after a drag and after whatever drags
\* and expansions follow it.
C23_PinnedWhereDisplayed ==
  \A i \in DOMAIN ui.nodes :
    ui.nodes[i].id \in DOMAIN ui.userPositions =>
      ui.userPositions[ui.nodes[i].id] = ui.nodes[i].pos

\* C26: when the result of an expansion of B that brings new nodes is
\* applied, the edges that leave another node, and with them the children the
\* result of an expansion of another node A has put on display, are still
\* displayed: requests that were outstanding together lose no update, in
\* either order of the results.
C26_NoLostUpdate ==
  (ExpansionApplied /\ ui.last.generated > 0) =>
    \A i \in DOMAIN ui.last.beforeEdges :
      ui.last.beforeEdges[i].source # ui.last.x =>
        /\ \E j \in DOMAIN ui.edges : ui.edges[j] = ui.last.beforeEdges[i]
        /\ ui.last.beforeEdges[i].target \in NodeIds(ui.nodes)

\* C27: a drag made while an expansion request is outstanding is not lost:
\* when the result is applied right after the drag, the dragged node and its
\* displayed descendants are displayed, and pinned, where the drag put them.
C27_DragDuringRequestKept ==
  [][(ui.last.op = "drag" /\ ui'.last.op = "expand") =>
       \A id \in SubtreeOf(ui.last.x) \cap NodeIds(ui.nodes) :
         /\ id \in NodeIds(ui'.nodes)
         /\ NodeOf(ui'.nodes, id).pos = NodeOf(ui.nodes, id).pos
         /\ id \in DOMAIN ui'.userPositions
         /\ ui'.userPositions[id] = NodeOf(ui.nodes, id).pos]_vars

\* The node of id m is collapsed and the node of id n is below it.
BelowCollapsed(n, m) ==
  /\ NodeOf(ui.nodes, m).isExpanded = "false"
  /\ n \in Descendants(m, ui.edges)

\* C29: after any sequence of clicks on the expand button of nodes that have
\* children, a node is hidden if and only if one of its ancestors has
\* isExpanded false; so a toggle of an ancestor leaves the descendants of a
\* node that is still collapsed hidden.
C29_HiddenIffAncestorCollapsed ==
  \A i \in DOMAIN ui.nodes :
    ui.nodes[i].hidden <=>
      \E m \in NodeIds(ui.nodes) : BelowCollapsed(ui.nodes[i].id, m)

\* C28: a run of expandRandomNodes that has been cancelled issues no
\* further request and calls setNodes and setEdges no more, also not for
\* the request that was in flight when it was cancelled; a run picks no node
\* twice and issues at most automateCount requests.
C28_CancelledRunIsSilent ==
  [][\A k \in DOMAIN ui.runs :
       /\ ui.runs[k].cancelled =>
            /\ ui'.runs[k].picks = ui.runs[k].picks
            /\ ui'.runs[k].applied = ui.runs[k].applied
       /\ Len(ui'.runs[k].picks) <= AutomateCount
       /\ \A i, j \in DOMAIN ui'.runs[k].picks :
            i # j => ui'.runs[k].picks[i] # ui'.runs[k].picks[j]]_vars

(***************************************************************************)
(* The function specification: one call of a function of the engine on     *)
(* arguments the component can hand to it.  The generator is not trusted:  *)
(* an edge list may close a cycle, give a node several parents or name a   *)
(* node that is not in the node list; positions are wherever the layout or *)
(* a drag has put the nodes.                                               *)
(***************************************************************************)
\* Edges in an edge list, children of one parent in a call of the space
\* search, and characters in the label of a wide node.
MaxEdges == 3
MaxSiblings == 10
MaxAreaStep == 12
WideLabel == 120

\* The edges a generated edge list is drawn from: a tree under r, a second
\* parent for b and for c, two edges that close a cycle, and an edge to d,
\* which is in no node list.
EdgePool ==
  {MkEdge("r", "a"), MkEdge("r", "b"), MkEdge("a", "b"), MkEdge("a", "c"),
   MkEdge("b", "c"), MkEdge("c", "a"), MkEdge("b", "r"), MkEdge("a", "d")}
EdgeLists ==
  {<<>>} \cup {es \in SeqsUpTo(EdgePool, MaxEdges) :
                 \A i, j \in DOMAIN es : i # j => es[i] # es[j]}

\* Where the nodes are before a call: as transformGPTToFlow draws them, and
\* a map whose nodes have been laid out and dragged.
Placements ==
  {[r |-> Pos(0, 0), a |-> Pos(399 * Px, 299 * Px), b |-> Pos(0, 0),
    c |-> Pos(399 * Px, 299 * Px)],
   [r |-> Pos(400 * Px, 40 * Px), a |-> Pos(323 * Px, 150 * Px),
    b |-> Pos(400 * Px, 110 * Px), c |-> Pos(323 * Px, 60 * Px)]}
\* The node lists: all four nodes, without c, and without the root.
NodeLists ==
  {[i \in DOMAIN ids |-> MkNode(ids[i], LabelLen, at[ids[i]], 0)] :
     ids \in {<<"r", "a", "b", "c">>, <<"r", "a", "b">>, <<"a", "b", "c">>},
     at \in Placements}
\* The pinned positions handed to the layout: none (a new map), or the
\* position of every node of the list but the newest (an expansion).
PinsOf(nodes) ==
  {<<>>, [id \in NodeIds(SubSeq(nodes, 1, Len(nodes) - 1)) |-> NodeOf(nodes, id).pos]}

Called(op, nodes, edges, x, pins) ==
  [NoCall EXCEPT !.op = op, !.nodes = nodes, !.edges = edges, !.x = x, !.pins = pins]

\* getDescendantIds(x, getChildMap(edges))
CallGetDescendantIds ==
  /\ fn.op = "none"
  /\ \E edges \in EdgeLists, x \in Ids :
       fn' = [Called("getDescendantIds", <<>>, edges, x, <<>>) EXCEPT
                !.thrown = getDescendantIdsOutcome(x, getChildMap(edges)).thrown,
                !.out = getDescendantIdsOutcome(x, getChildMap(edges)).ids]
  /\ UNCHANGED <<mg, ui>>

\* calculateNodeLevels(nodes, edges)
CallCalculateNodeLevels ==
  /\ fn.op = "none"
  /\ \E nodes \in NodeLists, edges \in EdgeLists :
       fn' = [Called("calculateNodeLevels", nodes, edges, "r", <<>>) EXCEPT
                !.out = calculateNodeLevels(nodes, edges)]
  /\ UNCHANGED <<mg, ui>>

\* The caller's node array after assignStaggeredTreePositions: idToNode holds
\* the caller's node objects (the last of an id), and placeSubtree assigns
\* their position.
HeldAfterLayout(nodes, st) ==
  [i \in DOMAIN nodes |->
     IF nodes[i].id \in st.placed /\ \A j \in (i + 1)..Len(nodes) : nodes[j].id # nodes[i].id
     THEN [nodes[i] EXCEPT !.pos = NodeOf(st.nodes, nodes[i].id).pos]
     ELSE nodes[i]]
Laid(call, st) ==
  [call EXCEPT !.thrown = st.thrown, !.out = st.nodes,
               !.arg = st.placed, !.held = HeldAfterLayout(call.nodes, st)]
\* assignStaggeredTreePositions(nodes, edges, "r", ..., pins); arg records the
\* ids it has placed.
CallAssignStaggeredTreePositions ==
  /\ fn.op = "none"
  /\ \E nodes \in NodeLists, edges \in EdgeLists :
     \E pins \in PinsOf(nodes) :
       fn' = Laid(Called("assignStaggeredTreePositions", nodes, edges, "r", pins),
                  assignStaggeredTreePositions(nodes, edges, "r", pins))
  /\ UNCHANGED <<mg, ui>>

\* The parent whose children the space search places, and what is around
\* it: nothing, one node 70 or 159 pixels below it, or a column of wide nodes,
\* one every 50 pixels, that covers every position the strategies try.
ParentNode == MkNode("p", LabelLen, Pos(400 * Px, 40 * Px), 0)
Below(dy) == <<MkNode("a", LabelLen, Pos(400 * Px, 40 * Px + dy), 0)>>
ColumnIds ==
  <<"w0", "w1", "w2", "w3", "w4", "w5", "w6", "w7", "w8", "w9", "w10", "w11", "w12",
    "w13">>
Column(firstY) ==
  [i \in DOMAIN ColumnIds |->
     MkNode(ColumnIds[i], WideLabel, Pos(400 * Px, firstY + (i - 1) * 50 * Px), 0)]
Surroundings == {<<>>, Below(70 * Px), Below(159 * Px), Column(100 * Px)}
KidIds == <<"k0", "k1", "k2", "k3", "k4", "k5", "k6", "k7", "k8", "k9", "k10", "k11">>
Kids(lens) == [i \in DOMAIN lens |-> MkNode(KidIds[i], lens[i], Pos(0, 0), 0)]
KidEdges(n) == [i \in 1..n |-> MkEdge("p", KidIds[i])]
\* placeSubtree on the parent, pinned where it is, with its children.
PlaceKids(existingNodes, kids, pins) ==
  placeSubtree([nodes |-> existingNodes \o <<ParentNode>> \o kids, placed |-> {},
                thrown |-> "none"],
               getChildMap(KidEdges(Len(kids))), pins, "p",
               ParentNode.pos.x, ParentNode.pos.y, {})
KidsOf(st, kids) == [i \in DOMAIN kids |-> NodeOf(st.nodes, kids[i].id)]

\* findBulkSpace(existingNodes, parentNode, childrenData), as placeSubtree
\* calls it for a parent none of whose children is pinned.
CallFindBulkSpace ==
  /\ fn.op = "none"
  /\ \E existingNodes \in Surroundings, lens \in SeqsUpTo({LabelLen, 3 * LabelLen}, 3) :
       fn' = [Called("findBulkSpace", existingNodes, <<>>, "p", <<>>) EXCEPT
                !.arg = lens,
                !.out = findBulkSpace(existingNodes, ParentNode,
                                      [i \in DOMAIN lens |-> estimateNodeWidth(lens[i])]),
                !.kids = KidsOf(PlaceKids(existingNodes, Kids(lens),
                                          [id \in {"p"} |-> ParentNode.pos]),
                                Kids(lens))]
  /\ UNCHANGED <<mg, ui>>

\* findOpenSpace(existingNodes, parentNode, nodeWidth, minNodeHeight, staggerY,
\* childIndex, siblingCount), as placeSubtree calls it for the one child that
\* is not pinned of a parent whose other children are: the existing nodes
\* are the nodes around the parent and the parent.
PinnedSiblings(siblingCount, childIndex) ==
  [id \in {"p"} \cup {KidIds[i] : i \in (1..siblingCount) \ {childIndex + 1}} |->
     IF id = "p" THEN ParentNode.pos ELSE Pos(2000 * Px, 2000 * Px)]
CallFindOpenSpace ==
  /\ fn.op = "none"
  /\ \E existingNodes \in Surroundings, siblingCount \in {2, 4, MaxSiblings} :
     \E childIndex \in 0..(siblingCount - 1) :
       fn' = [Called("findOpenSpace", existingNodes \o <<ParentNode>>, <<>>, "p", <<>>)
              EXCEPT
                !.arg = [childIndex |-> childIndex, siblingCount |-> siblingCount],
                !.out = findOpenSpace(existingNodes \o <<ParentNode>>, ParentNode,
                                      estimateNodeWidth(LabelLen), minNodeHeight, staggerY,
                                      childIndex, siblingCount),
                !.kids = <<NodeOf(PlaceKids(existingNodes,
                                            Kids([i \in 1..siblingCount |-> LabelLen]),
                                            PinnedSiblings(siblingCount, childIndex)).nodes,
                                  KidIds[childIndex + 1])>>]
  /\ UNCHANGED <<mg, ui>>

\* resolveNodeOverlapsBoundingBox(nodes, minNodePadding, 40): the caller's
\* array is the one the resolver sorts, and the caller's nodes have the
\* position objects the resolver moves.
HeldAfterResolve(nodes, out) ==
  [i \in DOMAIN out |-> [NodeOf(nodes, out[i].id) EXCEPT !.pos = out[i].pos]]
CallResolveNodeOverlapsBoundingBox ==
  /\ fn.op = "none"
  /\ \E nodes \in NodeLists :
       LET out == resolveNodeOverlapsBoundingBox(nodes, minNodePadding, 40)
       IN  fn' = [Called("resolveNodeOverlapsBoundingBox", nodes, <<>>, "", <<>>)
                  EXCEPT !.out = out, !.held = HeldAfterResolve(nodes, out)]
  /\ UNCHANGED <<mg, ui>>

\* checkAreaCollision(createSpatialGrid(nodes, cellSize), area, minNodePadding)
\* as the space search calls it: the area is a candidate block as wide as a
\* node and minNodeHeight or a node height high; out is what it returns and
\* the candidates of getGridCandidates.
AreaCorners ==
  {Pos(200 * Px + i * 25 * Px, j * 20 * Px) : i \in 0..MaxAreaStep, j \in 0..MaxAreaStep}
CallCheckAreaCollision ==
  /\ fn.op = "none"
  /\ \E nodes \in NodeLists, corner \in AreaCorners :
     \E height \in {minNodeHeight, estimateNodeHeight}, cellSize \in {80 * Px, 100 * Px} :
       LET area == [x |-> corner.x, y |-> corner.y,
                    width |-> estimateNodeWidth(LabelLen), height |-> height]
           spatialGrid == createSpatialGrid(nodes, cellSize)
       IN  fn' = [Called("checkAreaCollision", nodes, <<>>, "", <<>>) EXCEPT
                    !.arg = area,
                    !.out = [collides |-> checkAreaCollision(spatialGrid, area,
                                                             minNodePadding),
                             candidates |-> getGridCandidates(spatialGrid, area),
                             cellSize |-> cellSize]]
  /\ UNCHANGED <<mg, ui>>

\* transformGPTToFlow({nodes: newNodes, edges: gptData.edges}, false,
\* fullContext.nodes, fullContext.edges) of handleExpandClick, for a response
\* with k new children of the expanded node x; out is the level each new
\* node is styled with.
CallTransformGPTToFlow ==
  /\ fn.op = "none"
  /\ \E nodes \in NodeLists, edges \in EdgeLists :
     \E x \in NodeIds(nodes), k \in 1..MaxChildren :
       fn' = [Called("transformGPTToFlow", nodes, edges, x, <<>>) EXCEPT
                !.arg = Children(x, nodes, k),
                !.out = StyleLevels(Children(x, nodes, k))]
  /\ UNCHANGED <<mg, ui>>

FunctionInit == ui = Mounted /\ mg = MergeIdle /\ fn = NoCall
FunctionNext ==
  CallGetDescendantIds \/ CallCalculateNodeLevels \/ CallAssignStaggeredTreePositions
    \/ CallFindBulkSpace \/ CallFindOpenSpace \/ CallResolveNodeOverlapsBoundingBox
    \/ CallCheckAreaCollision \/ CallTransformGPTToFlow
SpecFunctions == FunctionInit /\ [][FunctionNext]_vars

(***************************************************************************)
(* Claims on the function specification.                                   *)
(***************************************************************************)
\* C14: getDescendantIds returns (it ends with no exception) for every edge
\* list, edge lists with a cycle or with a node of several parents included.
C14_DescendantsTerminate ==
  fn.op = "getDescendantIds" => fn.thrown = "none"

\* The ids within k edges of the root, and the least number of edges from
\* the root to an id that can be reached.
RECURSIVE WithinOfRoot(_, _)
WithinOfRoot(k, edges) ==
  IF k = 0 THEN {"r"}
  ELSE LET near == WithinOfRoot(k - 1, edges)
       IN  near \cup {edges[i].target : i \in {j \in DOMAIN edges : edges[j].source \in near}}
DistanceFromRoot(id, edges) ==
  CHOOSE k \in 0..Len(edges) :
    id \in WithinOfRoot(k, edges) /\ \A m \in 0..(k - 1) : id \notin WithinOfRoot(m, edges)

\* C18: the level map of calculateNodeLevels has exactly the ids that can be
\* reached from the root along the edges, each at its least distance from
\* the root (the root at 0); it is empty when the node list has no root.
C18_LevelsAreDistances ==
  fn.op = "calculateNodeLevels" =>
    IF "r" \notin NodeIds(fn.nodes) THEN fn.out = <<>>
    ELSE /\ DOMAIN fn.out = {"r"} \cup Descendants("r", fn.edges)
         /\ \A id \in DOMAIN fn.out : fn.out[id] = DistanceFromRoot(id, fn.edges)
\* C18, the case: a cycle through the root, a node two edges away, and a node
\* of the list that cannot be reached.
C18_Witness ==
  /\ fn.op = "calculateNodeLevels"
  /\ "r" \in NodeIds(fn.nodes) /\ "r" \in Descendants("r", fn.edges)
  /\ \E id \in DOMAIN fn.out : fn.out[id] = 2
  /\ NodeIds(fn.nodes) \ DOMAIN fn.out # {}

\* The position a layout call gave to a node.
LaidAt(id) == NodeOf(fn.out, id).pos
IsLayoutCall == fn.op = "assignStaggeredTreePositions"
IsSearchCall == fn.op \in {"findOpenSpace", "findBulkSpace"}

\* C13: every position findOpenSpace and findBulkSpace return, and every
\* position placeSubtree gives to a child that is not pinned, is strictly
\* below (greater y than) the position of the child's parent.
C13_ChildrenBelowParent ==
  /\ IsSearchCall =>
       /\ fn.out.y > ParentNode.pos.y
       /\ \A i \in DOMAIN fn.kids : fn.kids[i].pos.y > ParentNode.pos.y
  /\ (IsLayoutCall /\ fn.thrown = "none") =>
       \A id \in fn.arg \ ({"r"} \cup DOMAIN fn.pins) :
         \E i \in DOMAIN fn.edges :
           /\ fn.edges[i].target = id
           /\ fn.edges[i].source \in fn.arg
           /\ LaidAt(id).y > LaidAt(fn.edges[i].source).y
\* C13, the case: findOpenSpace for a child with a negative stagger, every
\* position of strategies 1 to 3 taken, returns its fallback position.
C13_Witness ==
  /\ fn.op = "findOpenSpace" /\ fn.arg.childIndex % 2 = 1
  /\ Len(fn.nodes) > 2
  /\ fn.out.y = fn.nodes[Len(fn.nodes) - 1].pos.y + 2 * minNodeHeight
  /\ fn.kids[1].pos = fn.out

\* C15: a layout call on edges with a cycle that can be reached from the root
\* returns: it does not end with the RangeError of an exhausted stack.
C15_LayoutSurvivesCycle == IsLayoutCall => fn.thrown # "RangeError"

\* C16: a layout call whose edges name an id that is not in the node list
\* does not throw (unless a cycle has exhausted the stack, C15), and gives a
\* position to every node of the list that can be reached from the root.
C16_LayoutSurvivesDanglingEdge ==
  (IsLayoutCall /\ fn.thrown # "RangeError") =>
    /\ fn.thrown = "none"
    /\ "r" \in NodeIds(fn.nodes) =>
         NodeIds(fn.nodes) \cap ({"r"} \cup Descendants("r", fn.edges)) \subseteq fn.arg

\* C17: a layout call whose root id is the id of no node of the list returns
\* without an exception, and every node it returns is where it was.
C17_MissingRootNoChange ==
  (IsLayoutCall /\ "r" \notin NodeIds(fn.nodes)) =>
    fn.thrown = "none" /\ Values(fn.out) = Values(fn.nodes)
\* C17, the case: no node has the root id, the edges are as many as can be
\* and one of them leaves the root id, and no node is pinned where it is.
C17_Witness ==
  /\ IsLayoutCall /\ "r" \notin NodeIds(fn.nodes)
  /\ Len(fn.edges) = MaxEdges /\ fn.pins = <<>>
  /\ \E i \in DOMAIN fn.edges : fn.edges[i].source = "r"
  /\ fn.nodes[1].pos # Pos(startX, startY)

\* C19: after a call of assignStaggeredTreePositions or of
\* resolveNodeOverlapsBoundingBox the caller's node array holds the same
\* nodes, in the same order and at the same positions, as before the call.
C19_EngineLeavesInputAlone ==
  fn.op \in {"assignStaggeredTreePositions", "resolveNodeOverlapsBoundingBox"} =>
    Values(fn.held) = Values(fn.nodes)

\* C20: the footprint of every child that placeSubtree places on what
\* findOpenSpace or findBulkSpace returned is farther than the minimum gap
\* from the footprint of every existing node that was passed to the search.
C20_PlacementCollisionFree ==
  IsSearchCall =>
    \A i \in DOMAIN fn.kids, j \in DOMAIN fn.nodes :
      ~checkCollisionWithSpacing(BoundsOf(fn.kids[i]), BoundsOf(fn.nodes[j]),
                                 minNodePadding)

\* C21: the list resolveNodeOverlapsBoundingBox returns has no two nodes whose
\* footprints collide within the minimum gap it was called with:
\* validateNodePositions on it reports no overlap.
C21_ResolvedNoOverlap ==
  fn.op = "resolveNodeOverlapsBoundingBox" =>
    ~validateNodePositions(fn.out, minNodePadding).hasOverlaps

\* C22: the candidates of getGridCandidates include every indexed node whose
\* footprint collides with the area within the minimum gap, and
\* checkAreaCollision is true exactly when some indexed node does.
Colliding ==
  {fn.nodes[i].id : i \in {j \in DOMAIN fn.nodes :
      checkCollisionWithSpacing(fn.arg, BoundsOf(fn.nodes[j]), minNodePadding)}}
C22_GridAgreesWithBruteForce ==
  fn.op = "checkAreaCollision" =>
    /\ Colliding \subseteq fn.out.candidates
    /\ fn.out.collides <=> Colliding # {}

\* The targets of the edges of a list that leave s, in the order of the list.
RECURSIVE TargetsInOrder(_, _)
TargetsInOrder(edges, s) ==
  IF edges = <<>> THEN <<>>
  ELSE (IF Head(edges).source = s THEN <<Head(edges).target>> ELSE <<>>)
         \o TargetsInOrder(Tail(edges), s)
\* Nodes side by side from left to right, xGap between adjacent footprints.
LeftToRight(row) ==
  \A i \in 1..(Len(row) - 1) :
    /\ row[i].pos.x < row[i + 1].pos.x
    /\ BoundsOf(row[i + 1]).x - (BoundsOf(row[i]).x + BoundsOf(row[i]).width) = xGap
\* No node of the edges has two parents, and the root has none.
IsTree(edges) ==
  /\ \A i, j \in DOMAIN edges : edges[i].target = edges[j].target => i = j
  /\ \A i \in DOMAIN edges : edges[i].target # "r"

C25_NewNodesStyledByDepth ==
  (/\ fn.op = "transformGPTToFlow"
   /\ "r" \in NodeIds(fn.nodes)
   /\ fn.x \in {"r"} \cup Descendants("r", fn.edges)) =>
    \A id \in DOMAIN fn.out :
      /\ fn.out[id] # 0
      /\ fn.out[id] =
           DistanceFromRoot(id, mergeExpandedNodesAndEdges(fn.nodes, fn.edges, fn.arg.nodes,
                                                           fn.arg.edges, fn.x).edges)

\* What a node is apart from where it is.
Attributes(n) == [n EXCEPT !.pos = Pos(0, 0), !.pobj = 0]
\* The ids a layout call can reach from its root along the edges.
ReachableFromRoot == {fn.x} \cup Descendants(fn.x, fn.edges)
\* A node of the call's list and the node of the same id after the call
\* differ in nothing but the position, and not even in that when the id is
\* out of reach of the root.
OnlyMoved(before, after) ==
  /\ Attributes(after) = Attributes(before)
  /\ before.id \notin ReachableFromRoot => after.pos = before.pos

\* C30: a layout call that returns returns each id of its node list once and
\* no other id; every node it returns, and every node of the caller's array
\* after the call (also after a call that ended with an exception), has the
\* attributes it had, and has its position too when the root does not reach
\* it along the edges.
C30_LayoutMovesReachableOnly ==
  IsLayoutCall =>
    /\ fn.thrown = "none" =>
          /\ NodeIds(fn.out) = NodeIds(fn.nodes)
          /\ Cardinality(NodeIds(fn.out)) = Len(fn.out)
          /\ \A i \in DOMAIN fn.out :
               OnlyMoved(NodeOf(fn.nodes, fn.out[i].id), fn.out[i])
    /\ Len(fn.held) = Len(fn.nodes)
    /\ \A i \in DOMAIN fn.held : OnlyMoved(fn.nodes[i], fn.held[i])
\* C30, the case: a call that returns, has moved a node the root reaches and
\* was given a node the root does not reach that is not at the start position.
C30_Witness ==
  /\ IsLayoutCall /\ fn.thrown = "none"
  /\ \E i \in DOMAIN fn.nodes :
       /\ fn.nodes[i].id \in ReachableFromRoot
       /\ NodeOf(fn.out, fn.nodes[i].id).pos # fn.nodes[i].pos
  /\ \E i \in DOMAIN fn.nodes :
       /\ fn.nodes[i].id \notin ReachableFromRoot
       /\ fn.nodes[i].pos # Pos(startX, startY)
=============================================================================
